---- MODULE Spec2Model ----
(***************************************************************************)
(* React Grab Bridge: path normalization, frame normalization and the      *)
(* rendered-by / used-in target selection of the VS Code extension.        *)
(*                                                                         *)
(* Strings are sequences of one-character strings, so that indexOf,        *)
(* substring, startsWith, includes and the regular-expression replaces     *)
(* are computed character by character as the JavaScript does.             *)
(* A nullable value is a sequence of length 0 (null) or 1 (the value).     *)
(***************************************************************************)
EXTENDS Integers, Sequences, FiniteSets, TLC

VARIABLES
    file,           \* normalizePath: the argument
    normalized,     \* normalizePath(file), once computed
    renormalized,   \* normalizePath applied to its own result
    lastSelection,  \* module-level slot: the last accepted Selection, or null
    cmd,            \* the command that ran last ("none" before any)
    nFrames,        \* local nFrames of that command
    rendered,       \* local rendered of that command: null or {frame, index}
    usedIn,         \* local usedIn of that command: null or a frame
    usedInCalls,    \* number of findUsedIn invocations made by that command
    opened,         \* arguments of the openAtLineCol call it issued, or null
    message,        \* the warning / information message it showed
    wFrame,         \* isWrapper: the argument
    wResult,        \* isWrapper(wFrame), once computed: null or a boolean
    vDoc,           \* validateSelection: the argument, a parsed JSON value
    vResult,        \* its result once computed: <<>> before, else <<null or message>>
    reqs,           \* the HTTP requests of the bridge server, by arrival number
    completed,      \* arrival numbers of the POSTs whose 'end' handler ran, in order
    statusBar,      \* the last setStatusBarMessage of the request handler, or null
    server,         \* module-level handle: null or the number of the held server
    serverRunning,  \* module-level flag
    servers,        \* the http servers created so far, by creation number
    statusBarItem,  \* text of the status bar item
    notice,         \* the last information / error message of the lifecycle
    active,         \* the extension is activated: its commands are registered
    pText,          \* parseReactGrabText: the argument, as its lines
    pPayload,       \* its result once computed: <<>> before, else <<null or payload>>
    pRaw,           \* parseFrame: the argument
    pFrame,         \* its outcome once computed: <<>> before, else <<null (throws) or frame>>
    endpointUrl,    \* startReactGrabBridge: option endpointUrl
    allowNonLocalhost, \* option allowNonLocalhost
    reactGrab,      \* window.__REACT_GRAB__: null, or what its two functions do
    bridge,         \* "not started", "refused" or "started"
    cleanedUp,      \* the function startReactGrabBridge returned has been called
    plugin,         \* React Grab holds the plugin passed to registerPlugin
    onSelectionCb,  \* React Grab holds the callback passed to onSelection
    copyListener,   \* document has the copy handler of the clipboard fallback
    handlers,       \* the copy handlers in flight: each "delay" or "reading"
    clipboard,      \* the text on the clipboard, as its lines
    lastHash,       \* local lastHash of installClipboardFallback, null for ""
    timer,          \* local timer of debounce: the payload of the pending call, or null
    events,         \* the copy events and React Grab callbacks so far: how and with which text
    sends,          \* the payloads send was called with, in order
    posts,          \* the fetch calls issued: url and payload
    nodeEnv,        \* process.env.NODE_ENV of the page
    effects         \* the runs of the dev-bridge effect, in order

normVars == <<file, normalized, renormalized>>

cmdVars == <<cmd, nFrames, rendered, usedIn, usedInCalls, opened, message>>

wrapVars == <<wFrame, wResult>>

valVars == <<vDoc, vResult>>

srvVars == <<reqs, completed, statusBar>>

lifeVars == <<server, serverRunning, servers, statusBarItem, notice, active>>

parseVars == <<pText, pPayload, pRaw, pFrame>>

browserVars == <<endpointUrl, allowNonLocalhost, reactGrab, bridge, cleanedUp,
                 plugin, onSelectionCb, copyListener, handlers, clipboard,
                 lastHash, timer, events, sends, posts>>

devVars == <<nodeEnv, effects>>

\* the variables of the browser side
otherVars == <<parseVars, browserVars, devVars>>

vars == <<file, normalized, renormalized, lastSelection,
          cmd, nFrames, rendered, usedIn, usedInCalls, opened, message,
          wFrame, wResult, vDoc, vResult, reqs, completed, statusBar,
          server, serverRunning, servers, statusBarItem, notice, active,
          pText, pPayload, pRaw, pFrame,
          endpointUrl, allowNonLocalhost, reactGrab, bridge, cleanedUp,
          plugin, onSelectionCb, copyListener, handlers, clipboard,
          lastHash, timer, events, sends, posts, nodeEnv, effects>>

----------------------------------------------------------------------------
(* null and non-null values *)

Null == <<>>

Some(x) == <<x>>

IsNull(o) == Len(o) = 0

Range(s) == {s[i] : i \in DOMAIN s}

Val(o) == o[1]

----------------------------------------------------------------------------
(* String primitives of the JavaScript runtime *)

\* s.startsWith(pat, k) with k a 0-based position
MatchesAt(s, pat, k) ==
    /\ k + Len(pat) <= Len(s)
    /\ \A i \in 1..Len(pat) : s[k + i] = pat[i]

RECURSIVE IndexFrom(_, _, _)
IndexFrom(s, pat, k) ==
    IF k + Len(pat) > Len(s) THEN -1
    ELSE IF MatchesAt(s, pat, k) THEN k
    ELSE IndexFrom(s, pat, k + 1)

\* s.indexOf(pat): 0-based position of the first occurrence, -1 if none
IndexOf(s, pat) == IndexFrom(s, pat, 0)

\* s.substring(start)
Substring(s, start) == SubSeq(s, start + 1, Len(s))

\* s.startsWith(pat)
StartsWith(s, pat) == MatchesAt(s, pat, 0)

\* s.includes(pat)
Includes(s, pat) == IndexOf(s, pat) # -1

\* s.replace(/^\/+/, "")
RECURSIVE StripLeadingSlashes(_)
StripLeadingSlashes(s) ==
    IF Len(s) > 0 /\ Head(s) = "/" THEN StripLeadingSlashes(Tail(s)) ELSE s

\* s.replace(/\\/g, "/")
ReplaceBackslashes(s) ==
    [i \in 1..Len(s) |-> IF s[i] = "\\" THEN "/" ELSE s[i]]

----------------------------------------------------------------------------
(* Path normalization *)

\* variant: the cut at "/src/" drops the "src/" prefix as well
normalizePath_dropsSrc(f) ==
    LET srcSlash == IndexOf(f, <<"/","s","r","c","/">>)
        srcBackslash == IndexOf(f, <<"s","r","c","\\">>)
        result == IF srcSlash # -1 THEN Substring(f, srcSlash + 5)
                  ELSE IF srcBackslash # -1 THEN Substring(f, srcBackslash)
                  ELSE f
    IN  ReplaceBackslashes(StripLeadingSlashes(result))

\* variant: the backslash form is tried before the slash form
normalizePath_backslashFirst(f) ==
    LET srcSlash == IndexOf(f, <<"/","s","r","c","/">>)
        srcBackslash == IndexOf(f, <<"s","r","c","\\">>)
        result == IF srcBackslash # -1 THEN Substring(f, srcBackslash)
                  ELSE IF srcSlash # -1 THEN Substring(f, srcSlash + 1)
                  ELSE f
    IN  ReplaceBackslashes(StripLeadingSlashes(result))

normalizePath(f) ==
    LET srcSlash == IndexOf(f, <<"/","s","r","c","/">>)
        srcBackslash == IndexOf(f, <<"s","r","c","\\">>)
        result == IF srcSlash # -1 THEN Substring(f, srcSlash + 1)
                  ELSE IF srcBackslash # -1 THEN Substring(f, srcBackslash)
                  ELSE f
    IN  ReplaceBackslashes(StripLeadingSlashes(result))

--------------------------------------------------------

----------------------------------------------------------------------------
(* Normalize all frames in a selection *)

normalizeFrames_overwritesFile(sel) ==
    [k \in 1..Len(sel.frames) |->
        [raw |-> sel.frames[k].raw,
         name |-> sel.frames[k].name,
         file |-> normalizePath(sel.frames[k].file),
         line |-> sel.frames[k].line,
         col |-> sel.frames[k].col,
         normalizedFile |-> normalizePath(sel.frames[k].file)]]

normalizeFrames(sel) ==
    [k \in 1..Len(sel.frames) |->
        [raw |-> sel.frames[k].raw,
         name |-> sel.frames[k].name,
         file |-> sel.frames[k].file,
         line |-> sel.frames[k].line,
         col |-> sel.frames[k].col,
         normalizedFile |-> normalizePath(sel.frames[k].file)]]

----------------------------------------------------------------------------
(* Target selection algorithm *)

\* variant: the directory patterns lose their leading slash
isWrapper_noLeadingSlash(frame) ==
    LET f == frame.normalizedFile
        n == IF IsNull(frame.name) THEN <<>> ELSE Val(frame.name)
    IN  \/ Includes(f, <<"c","o","n","t","e","x","t","/">>)
        \/ Includes(f, <<"p","r","o","v","i","d","e","r","s","/">>)
        \/ Includes(n, <<"P","r","o","v","i","d","e","r">>)
        \/ Includes(n, <<"C","o","n","t","e","x","t">>)
        \/ Includes(n, <<"B","o","u","n","d","a","r","y">>)

isWrapper(frame) ==
    LET f == frame.normalizedFile
        n == IF IsNull(frame.name) THEN <<>> ELSE Val(frame.name)
    IN  \/ Includes(f, <<"/","c","o","n","t","e","x","t","/">>)
        \/ Includes(f, <<"/","p","r","o","v","i","d","e","r","s","/">>)
        \/ Includes(n, <<"P","r","o","v","i","d","e","r">>)
        \/ Includes(n, <<"C","o","n","t","e","x","t">>)
        \/ Includes(n, <<"B","o","u","n","d","a","r","y">>)

\* frames.map((f, i) => ({ f, i })), i counted from 0
WithIndex(frames) == [k \in 1..Len(frames) |-> [f |-> frames[k], i |-> k - 1]]

IsCandidate(x) == StartsWith(x.f.normalizedFile, <<"s","r","c","/">>) /\ x.f.line > 0

HasName(c) == ~IsNull(c.f.name)

\* variant: the named candidate is not preferred
findRenderedBy_firstCandidate(frames) ==
    LET candidates == SelectSeq(WithIndex(frames), IsCandidate)
    IN  IF Len(candidates) = 0 THEN Null
        ELSE Some([frame |-> candidates[1].f, index |-> candidates[1].i])

\* variant: the filter forgets line > 0
findRenderedBy_anyLine(frames) ==
    LET candidates == SelectSeq(WithIndex(frames),
                                LAMBDA x : StartsWith(x.f.normalizedFile, <<"s","r","c","/">>))
        named == SelectSeq(candidates, HasName)
        chosen == IF Len(named) > 0 THEN named[1] ELSE candidates[1]
    IN  IF Len(candidates) = 0 THEN Null
        ELSE Some([frame |-> chosen.f, index |-> chosen.i])

findRenderedBy(frames) ==
    LET candidates == SelectSeq(WithIndex(frames), IsCandidate)
        named == SelectSeq(candidates, HasName)
        chosen == IF Len(named) > 0 THEN named[1] ELSE candidates[1]
    IN  IF Len(candidates) = 0 THEN Null
        ELSE Some([frame |-> chosen.f, index |-> chosen.i])

\* first loop of findUsedIn, from position j (0-based)
RECURSIVE ScanNonWrapper(_, _, _)
ScanNonWrapper(frames, renderedFile, j) ==
    IF j >= Len(frames) THEN Null
    ELSE IF ~isWrapper(frames[j + 1]) /\ frames[j + 1].normalizedFile # renderedFile
         THEN Some(frames[j + 1])
         ELSE ScanNonWrapper(frames, renderedFile, j + 1)

\* second loop of findUsedIn, from position j (0-based)
RECURSIVE ScanOtherFile(_, _, _)
ScanOtherFile(frames, renderedFile, j) ==
    IF j >= Len(frames) THEN Null
    ELSE IF frames[j + 1].normalizedFile # renderedFile
         THEN Some(frames[j + 1])
         ELSE ScanOtherFile(frames, renderedFile, j + 1)

\* variant: wrappers are not skipped (only the second loop)
findUsedIn_noWrapperSkip(frames, r) ==
    LET second == ScanOtherFile(frames, r.frame.normalizedFile, r.index + 1)
    IN  IF ~IsNull(second) THEN Val(second) ELSE r.frame

\* variant: no relaxed second loop
findUsedIn_noRelaxedPass(frames, r) ==
    LET first == ScanNonWrapper(frames, r.frame.normalizedFile, r.index + 1)
    IN  IF ~IsNull(first) THEN Val(first) ELSE r.frame

RECURSIVE ScanOtherRawFile(_, _, _)
ScanOtherRawFile(frames, rawFile, j) ==
    IF j >= Len(frames) THEN Null
    ELSE IF frames[j + 1].file # rawFile THEN Some(frames[j + 1])
         ELSE ScanOtherRawFile(frames, rawFile, j + 1)

\* variant: the second loop compares file instead of normalizedFile
findUsedIn_rawFile(frames, r) ==
    LET first == ScanNonWrapper(frames, r.frame.normalizedFile, r.index + 1)
        second == ScanOtherRawFile(frames, r.frame.file, r.index + 1)
    IN  IF ~IsNull(first) THEN Val(first)
        ELSE IF ~IsNull(second) THEN Val(second)
        ELSE r.frame

\* variant: both loops start at 0 instead of rendered.index + 1
findUsedIn_scanFromStart(frames, r) ==
    LET renderedFile == r.frame.normalizedFile
        first == ScanNonWrapper(frames, renderedFile, 0)
        second == ScanOtherFile(frames, renderedFile, 0)
    IN  IF ~IsNull(first) THEN Val(first)
        ELSE IF ~IsNull(second) THEN Val(second)
        ELSE r.frame

\* variant: both loops start at rendered.index + 2
findUsedIn_skipNext(frames, r) ==
    LET renderedFile == r.frame.normalizedFile
        first == ScanNonWrapper(frames, renderedFile, r.index + 2)
        second == ScanOtherFile(frames, renderedFile, r.index + 2)
    IN  IF ~IsNull(first) THEN Val(first)
        ELSE IF ~IsNull(second) THEN Val(second)
        ELSE r.frame

findUsedIn(frames, r) ==
    LET renderedFile == r.frame.normalizedFile
        first == ScanNonWrapper(frames, renderedFile, r.index + 1)
        second == ScanOtherFile(frames, renderedFile, r.index + 1)
    IN  IF ~IsNull(first) THEN Val(first)
        ELSE IF ~IsNull(second) THEN Val(second)
        ELSE r.frame

----------------------------------------------------------------------------
(* Parsed JSON values: a record with the kind t of the value and its       *)
(* payload v. A number n is held as 2n (v is odd for a non-integer); an    *)
(* object is held as the record of the properties the validator reads,     *)
(* a property that is absent reading as undefined.                         *)

JNull == [t |-> "null", v |-> <<>>]

JUndefined == [t |-> "undefined", v |-> <<>>]

JString(s) == [t |-> "string", v |-> s]

JNumber(twice) == [t |-> "number", v |-> <<twice>>]

JArray(elems) == [t |-> "array", v |-> elems]

JObject(props) == [t |-> "object", v |-> <<props>>]

\* typeof x
TypeOf(x) == IF x.t \in {"null", "array", "object"} THEN "object" ELSE x.t

\* Array.isArray(x)
IsArray(x) == x.t = "array"

\* data as Record<string, unknown>
Props(x) == x.v[1]

\* Number.isInteger(x), for x a number
IsInteger(x) == x.v[1] % 2 = 0

\* x < 1, for x a number
LessThanOne(x) == x.v[1] < 2

\* `${i}` for an array index
RECURSIVE Digits(_)
Digits(i) ==
    LET d == <<"0", "1", "2", "3", "4", "5", "6", "7", "8", "9">>
    IN  IF i < 10 THEN <<d[i + 1]>> ELSE Digits(i \div 10) \o <<d[(i % 10) + 1]>>

----------------------------------------------------------------------------
(* Validation *)

\* variant: line is checked before file
ValidateFrame_lineBeforeFile(f, i) ==
    IF TypeOf(f) # "object" \/ f.t = "null" \/ IsArray(f)
    THEN Some(<<"f","r","a","m","e","s","[">> \o Digits(i) \o <<"]"," ","m","u","s","t"," ","b","e"," ","a","n"," ","o","b","j","e","c","t">>)
    ELSE IF TypeOf(Props(f).raw) # "string"
    THEN Some(<<"f","r","a","m","e","s","[">> \o Digits(i) \o <<"]",".","r","a","w"," ","m","u","s","t"," ","b","e"," ","a"," ","s","t","r","i","n","g">>)
    ELSE IF Props(f).name.t # "null" /\ TypeOf(Props(f).name) # "string"
    THEN Some(<<"f","r","a","m","e","s","[">> \o Digits(i) \o <<"]",".","n","a","m","e"," ","m","u","s","t"," ","b","e"," ","a"," ","s","t","r","i","n","g"," ","o","r"," ","n","u","l","l">>)
    ELSE IF \/ TypeOf(Props(f).line) # "number"
            \/ ~IsInteger(Props(f).line)
            \/ LessThanOne(Props(f).line)
    THEN Some(<<"f","r","a","m","e","s","[">> \o Digits(i) \o <<"]",".","l","i","n","e"," ","m","u","s","t"," ","b","e"," ","a"," ","p","o","s","i","t","i","v","e"," ","i","n","t","e","g","e","r">>)
    ELSE IF TypeOf(Props(f).file) # "string"
    THEN Some(<<"f","r","a","m","e","s","[">> \o Digits(i) \o <<"]",".","f","i","l","e"," ","m","u","s","t"," ","b","e"," ","a"," ","s","t","r","i","n","g">>)
    ELSE IF \/ TypeOf(Props(f).col) # "number"
            \/ ~IsInteger(Props(f).col)
            \/ LessThanOne(Props(f).col)
    THEN Some(<<"f","r","a","m","e","s","[">> \o Digits(i) \o <<"]",".","c","o","l"," ","m","u","s","t"," ","b","e"," ","a"," ","p","o","s","i","t","i","v","e"," ","i","n","t","e","g","e","r">>)
    ELSE Null

\* variant: line < 0 instead of line < 1
ValidateFrame_zeroLine(f, i) ==
    IF TypeOf(f) # "object" \/ f.t = "null" \/ IsArray(f)
    THEN Some(<<"f","r","a","m","e","s","[">> \o Digits(i) \o <<"]"," ","m","u","s","t"," ","b","e"," ","a","n"," ","o","b","j","e","c","t">>)
    ELSE IF TypeOf(Props(f).raw) # "string"
    THEN Some(<<"f","r","a","m","e","s","[">> \o Digits(i) \o <<"]",".","r","a","w"," ","m","u","s","t"," ","b","e"," ","a"," ","s","t","r","i","n","g">>)
    ELSE IF Props(f).name.t # "null" /\ TypeOf(Props(f).name) # "string"
    THEN Some(<<"f","r","a","m","e","s","[">> \o Digits(i) \o <<"]",".","n","a","m","e"," ","m","u","s","t"," ","b","e"," ","a"," ","s","t","r","i","n","g"," ","o","r"," ","n","u","l","l">>)
    ELSE IF TypeOf(Props(f).file) # "string"
    THEN Some(<<"f","r","a","m","e","s","[">> \o Digits(i) \o <<"]",".","f","i","l","e"," ","m","u","s","t"," ","b","e"," ","a"," ","s","t","r","i","n","g">>)
    ELSE IF \/ TypeOf(Props(f).line) # "number"
            \/ ~IsInteger(Props(f).line)
            \/ Props(f).line.v[1] < 0
    THEN Some(<<"f","r","a","m","e","s","[">> \o Digits(i) \o <<"]",".","l","i","n","e"," ","m","u","s","t"," ","b","e"," ","a"," ","p","o","s","i","t","i","v","e"," ","i","n","t","e","g","e","r">>)
    ELSE IF \/ TypeOf(Props(f).col) # "number"
            \/ ~IsInteger(Props(f).col)
            \/ LessThanOne(Props(f).col)
    THEN Some(<<"f","r","a","m","e","s","[">> \o Digits(i) \o <<"]",".","c","o","l"," ","m","u","s","t"," ","b","e"," ","a"," ","p","o","s","i","t","i","v","e"," ","i","n","t","e","g","e","r">>)
    ELSE Null

\* variant: the col check reports the message of the line check
ValidateFrame_colSaysLine(f, i) ==
    IF TypeOf(f) # "object" \/ f.t = "null" \/ IsArray(f)
    THEN Some(<<"f","r","a","m","e","s","[">> \o Digits(i) \o <<"]"," ","m","u","s","t"," ","b","e"," ","a","n"," ","o","b","j","e","c","t">>)
    ELSE IF TypeOf(Props(f).raw) # "string"
    THEN Some(<<"f","r","a","m","e","s","[">> \o Digits(i) \o <<"]",".","r","a","w"," ","m","u","s","t"," ","b","e"," ","a"," ","s","t","r","i","n","g">>)
    ELSE IF Props(f).name.t # "null" /\ TypeOf(Props(f).name) # "string"
    THEN Some(<<"f","r","a","m","e","s","[">> \o Digits(i) \o <<"]",".","n","a","m","e"," ","m","u","s","t"," ","b","e"," ","a"," ","s","t","r","i","n","g"," ","o","r"," ","n","u","l","l">>)
    ELSE IF TypeOf(Props(f).file) # "string"
    THEN Some(<<"f","r","a","m","e","s","[">> \o Digits(i) \o <<"]",".","f","i","l","e"," ","m","u","s","t"," ","b","e"," ","a"," ","s","t","r","i","n","g">>)
    ELSE IF \/ TypeOf(Props(f).line) # "number"
            \/ ~IsInteger(Props(f).line)
            \/ LessThanOne(Props(f).line)
    THEN Some(<<"f","r","a","m","e","s","[">> \o Digits(i) \o <<"]",".","l","i","n","e"," ","m","u","s","t"," ","b","e"," ","a"," ","p","o","s","i","t","i","v","e"," ","i","n","t","e","g","e","r">>)
    ELSE IF \/ TypeOf(Props(f).col) # "number"
            \/ ~IsInteger(Props(f).col)
            \/ LessThanOne(Props(f).col)
    THEN Some(<<"f","r","a","m","e","s","[">> \o Digits(i) \o <<"]",".","l","i","n","e"," ","m","u","s","t"," ","b","e"," ","a"," ","p","o","s","i","t","i","v","e"," ","i","n","t","e","g","e","r">>)
    ELSE Null

\* the checks of the loop body for frames[i]
ValidateFrame(f, i) ==
    IF TypeOf(f) # "object" \/ f.t = "null" \/ IsArray(f)
    THEN Some(<<"f","r","a","m","e","s","[">> \o Digits(i) \o <<"]"," ","m","u","s","t"," ","b","e"," ","a","n"," ","o","b","j","e","c","t">>)
    ELSE IF TypeOf(Props(f).raw) # "string"
    THEN Some(<<"f","r","a","m","e","s","[">> \o Digits(i) \o <<"]",".","r","a","w"," ","m","u","s","t"," ","b","e"," ","a"," ","s","t","r","i","n","g">>)
    ELSE IF Props(f).name.t # "null" /\ TypeOf(Props(f).name) # "string"
    THEN Some(<<"f","r","a","m","e","s","[">> \o Digits(i) \o <<"]",".","n","a","m","e"," ","m","u","s","t"," ","b","e"," ","a"," ","s","t","r","i","n","g"," ","o","r"," ","n","u","l","l">>)
    ELSE IF TypeOf(Props(f).file) # "string"
    THEN Some(<<"f","r","a","m","e","s","[">> \o Digits(i) \o <<"]",".","f","i","l","e"," ","m","u","s","t"," ","b","e"," ","a"," ","s","t","r","i","n","g">>)
    ELSE IF \/ TypeOf(Props(f).line) # "number"
            \/ ~IsInteger(Props(f).line)
            \/ LessThanOne(Props(f).line)
    THEN Some(<<"f","r","a","m","e","s","[">> \o Digits(i) \o <<"]",".","l","i","n","e"," ","m","u","s","t"," ","b","e"," ","a"," ","p","o","s","i","t","i","v","e"," ","i","n","t","e","g","e","r">>)
    ELSE IF \/ TypeOf(Props(f).col) # "number"
            \/ ~IsInteger(Props(f).col)
            \/ LessThanOne(Props(f).col)
    THEN Some(<<"f","r","a","m","e","s","[">> \o Digits(i) \o <<"]",".","c","o","l"," ","m","u","s","t"," ","b","e"," ","a"," ","p","o","s","i","t","i","v","e"," ","i","n","t","e","g","e","r">>)
    ELSE Null

\* for (let i = 0; i < obj.frames.length; i++), from index i on
RECURSIVE ValidateFrames(_, _)
ValidateFrames(frames, i) ==
    IF i >= Len(frames) THEN Null
    ELSE IF ~IsNull(ValidateFrame(frames[i + 1], i)) THEN ValidateFrame(frames[i + 1], i)
    ELSE ValidateFrames(frames, i + 1)

\* null (valid) or the error message
validateSelection(data) ==
    IF TypeOf(data) # "object" \/ data.t = "null" \/ IsArray(data)
    THEN Some(<<"B","o","d","y"," ","m","u","s","t"," ","b","e"," ","a"," ","J","S","O","N"," ","o","b","j","e","c","t">>)
    ELSE IF Props(data).domLabel.t # "null" /\ TypeOf(Props(data).domLabel) # "string"
    THEN Some(<<"d","o","m","L","a","b","e","l"," ","m","u","s","t"," ","b","e"," ","a"," ","s","t","r","i","n","g"," ","o","r"," ","n","u","l","l">>)
    ELSE IF ~IsArray(Props(data).frames)
    THEN Some(<<"f","r","a","m","e","s"," ","m","u","s","t"," ","b","e"," ","a","n"," ","a","r","r","a","y">>)
    ELSE IF Len(Props(data).frames.v) < 1
    THEN Some(<<"f","r","a","m","e","s"," ","m","u","s","t"," ","h","a","v","e"," ","a","t"," ","l","e","a","s","t"," ","1"," ","e","n","t","r","y">>)
    ELSE ValidateFrames(Props(data).frames.v, 0)

----------------------------------------------------------------------------
(* Commands registered by activate; each reads lastSelection *)

OpenArgs(f) == [normalizedFile |-> f.normalizedFile, line |-> f.line, col |-> f.col]

\* `${f.name ?? "(anonymous)"} — ${f.normalizedFile}:${f.line}:${f.col}`
FrameLabel(f) ==
    [icon |-> "",
     name |-> IF IsNull(f.name) THEN <<"(","a","n","o","n","y","m","o","u","s",")">> ELSE Val(f.name),
     normalizedFile |-> f.normalizedFile, line |-> f.line, col |-> f.col]

\* the early return of every command when no selection is stored
NoSelection ==
    /\ nFrames' = <<>>
    /\ rendered' = Null
    /\ usedIn' = Null
    /\ usedInCalls' = 0
    /\ opened' = Null
    /\ message' = [kind |-> "warning", text |-> "no selection received yet"]

NoRenderedWarning ==
    [kind |-> "warning", text |-> "could not determine rendered-by target"]

\* reactGrab.openRenderedBy
openRenderedBy ==
    /\ cmd' = "openRenderedBy"
    /\ IF IsNull(lastSelection) THEN NoSelection
       ELSE /\ nFrames' = normalizeFrames(Val(lastSelection))
            /\ rendered' = findRenderedBy(nFrames')
            /\ usedIn' = Null
            /\ usedInCalls' = 0
            /\ IF IsNull(rendered')
               THEN /\ opened' = Null
                    /\ message' = NoRenderedWarning
               ELSE /\ opened' = Some(OpenArgs(Val(rendered').frame))
                    /\ message' = [kind |-> "none"]
    /\ UNCHANGED <<normVars, wrapVars, valVars, srvVars, lifeVars, lastSelection, otherVars>>

openUsedIn_opensFirstFrame ==
    /\ cmd' = "openUsedIn"
    /\ IF IsNull(lastSelection) THEN NoSelection
       ELSE /\ nFrames' = normalizeFrames(Val(lastSelection))
            /\ rendered' = findRenderedBy(nFrames')
            /\ IF IsNull(rendered')
               THEN /\ usedIn' = Null
                    /\ usedInCalls' = 0
                    /\ opened' = IF Len(nFrames') > 0 THEN Some(OpenArgs(nFrames'[1])) ELSE Null
                    /\ message' = NoRenderedWarning
               ELSE /\ usedIn' = Some(findUsedIn(nFrames', Val(rendered')))
                    /\ usedInCalls' = 1
                    /\ opened' = Some(OpenArgs(Val(usedIn')))
                    /\ message' = [kind |-> "none"]
    /\ UNCHANGED <<normVars, wrapVars, valVars, srvVars, lifeVars, lastSelection, otherVars>>

\* reactGrab.openUsedIn
openUsedIn ==
    /\ cmd' = "openUsedIn"
    /\ IF IsNull(lastSelection) THEN NoSelection
       ELSE /\ nFrames' = normalizeFrames(Val(lastSelection))
            /\ rendered' = findRenderedBy(nFrames')
            /\ IF IsNull(rendered')
               THEN /\ usedIn' = Null
                    /\ usedInCalls' = 0
                    /\ opened' = Null
                    /\ message' = NoRenderedWarning
               ELSE /\ usedIn' = Some(findUsedIn(nFrames', Val(rendered')))
                    /\ usedInCalls' = 1
                    /\ opened' = Some(OpenArgs(Val(usedIn')))
                    /\ message' = [kind |-> "none"]
    /\ UNCHANGED <<normVars, wrapVars, valVars, srvVars, lifeVars, lastSelection, otherVars>>

\* const usedIn = rendered ? findUsedIn(nFrames, rendered) : null
ClassifyLastSelection ==
    /\ nFrames' = normalizeFrames(Val(lastSelection))
    /\ rendered' = findRenderedBy(nFrames')
    /\ IF ~IsNull(rendered')
       THEN /\ usedIn' = Some(findUsedIn(nFrames', Val(rendered')))
            /\ usedInCalls' = 1
       ELSE /\ usedIn' = Null
            /\ usedInCalls' = 0

\* reactGrab.showLastSelection
showLastSelection ==
    /\ cmd' = "showLastSelection"
    /\ IF IsNull(lastSelection) THEN NoSelection
       ELSE /\ ClassifyLastSelection
            /\ opened' = Null
            /\ message' =
                 [kind |-> "information",
                  dom |-> IF IsNull(Val(lastSelection).domLabel) THEN <<"(","n","o","n","e",")">>
                          ELSE Val(Val(lastSelection).domLabel),
                  frameCount |-> Len(nFrames'),
                  renderedBy |-> IF ~IsNull(rendered')
                                 THEN Some(OpenArgs(Val(rendered').frame)) ELSE Null,
                  usedIn |-> IF ~IsNull(usedIn')
                             THEN Some(OpenArgs(Val(usedIn'))) ELSE Null]
    /\ UNCHANGED <<normVars, wrapVars, valVars, srvVars, lifeVars, lastSelection, otherVars>>

\* the entries of the quick pick the user can choose, in display order
QuickPickItems(nf, r, u) ==
    (IF ~IsNull(r) THEN <<[FrameLabel(Val(r).frame) EXCEPT !.icon = "arrow-right"]>> ELSE <<>>)
    \o (IF ~IsNull(u) THEN <<[FrameLabel(Val(u)) EXCEPT !.icon = "arrow-up"]>> ELSE <<>>)
    \o [k \in 1..Len(nf) |-> FrameLabel(nf[k])]

\* nFrames.find((f) => label(f) === picked.label)
FindByLabel(nf, label) ==
    LET hits == SelectSeq(nf, LAMBDA f : FrameLabel(f) = label)
    IN  IF Len(hits) = 0 THEN Null ELSE Some(hits[1])

\* the openAtLineCol call made for the picked entry, if any
OpenPicked(nf, r, u, picked) ==
    IF ~IsNull(r) /\ picked.icon = "arrow-right" THEN Some(OpenArgs(Val(r).frame))
    ELSE IF ~IsNull(u) /\ picked.icon = "arrow-up" THEN Some(OpenArgs(Val(u)))
    ELSE LET match == FindByLabel(nf, picked)
         IN  IF ~IsNull(match) THEN Some(OpenArgs(Val(match))) ELSE Null

\* reactGrab.openFrame; the user dismisses the quick pick or picks an entry
showQuickPick ==
    /\ cmd' = "openFrame"
    /\ IF IsNull(lastSelection) THEN NoSelection
       ELSE /\ ClassifyLastSelection
            /\ message' = [kind |-> "none"]
            /\ \/ opened' = Null
               \/ \E picked \in Range(QuickPickItems(nFrames', rendered', usedIn')) :
                      opened' = OpenPicked(nFrames', rendered', usedIn', picked)
    /\ UNCHANGED <<normVars, wrapVars, valVars, srvVars, lifeVars, lastSelection, otherVars>>

----------------------------------------------------------------------------
(* Specification of the classifier: the commands run on a stored selection *)
(* drawn from the frame lists of at most MaxFrames frames of FramePool and *)
(* the two sample payloads of scripts/postSelection.js.                    *)

MaxFrames == 3

Frame(raw, name, f, line, col) ==
    [raw |-> raw, name |-> name, file |-> f, line |-> line, col |-> col]

FileA == <<"/","x","/","s","r","c","/","a",".","t","s","x">>

FileB == <<"/","x","/","s","r","c","/","b",".","t","s","x">>

FileCtx == <<"/","x","/","s","r","c","/","c","o","n","t","e","x","t","/","c",".","t","s","x">>

FileLib == <<"/","l","i","b","/","d",".","j","s">>

FileWin == <<"C",":","\\","s","r","c","\\","a",".","t","s","x">>

FramePool ==
    { Frame("a68", Null, FileA, 68, 11),
      Frame("a0", Null, FileA, 0, 1),
      Frame("Foo", Some(<<"F","o","o">>), FileA, 5, 2),
      Frame("Bar", Some(<<"B","a","r">>), FileB, 7, 3),
      Frame("b9", Null, FileB, 9, 1),
      Frame("FooProvider", Some(<<"F","o","o","P","r","o","v","i","d","e","r">>), FileB, 3, 1),
      Frame("Baz", Some(<<"B","a","z">>), FileCtx, 4, 1),
      Frame("d2", Null, FileLib, 2, 1),
      Frame("Win", Some(<<"W","i","n">>), FileWin, 6, 1),
      Frame("ErrorBoundary", Some(<<"E","r","r","o","r","B","o","u","n","d","a","r","y">>), <<"/","l","i","b","/","e",".","j","s">>, 1, 1) }

TabBarFile == <<"/","(","a","p","p","-","p","a","g","e","s","-","b","r","o","w","s","e","r",")","/",".","/","s","r","c","/","c","o","m","p","o","n","e","n","t","s","/","s","p","r","i","n","g","-","u","i","/","t","a","b","-","b","a","r",".","t","s","x">>

RightPanelFile == <<"/","(","a","p","p","-","p","a","g","e","s","-","b","r","o","w","s","e","r",")","/",".","/","s","r","c","/","c","o","m","p","o","n","e","n","t","s","/","d","e","s","i","g","n","e","r","/","l","a","y","o","u","t","/","p","a","n","e","l","s","/","r","i","g","h","t","p","a","n","e","l","/","R","i","g","h","t","P","a","n","e","l",".","t","s","x">>

CanvasBarFile == <<"/","(","a","p","p","-","p","a","g","e","s","-","b","r","o","w","s","e","r",")","/",".","/","s","r","c","/","c","o","m","p","o","n","e","n","t","s","/","d","e","s","i","g","n","e","r","/","l","a","y","o","u","t","/","C","a","n","v","a","s","B","a","r",".","t","s","x">>

LayoutContentFile == <<"/","(","a","p","p","-","p","a","g","e","s","-","b","r","o","w","s","e","r",")","/",".","/","s","r","c","/","c","o","m","p","o","n","e","n","t","s","/","d","e","s","i","g","n","e","r","/","l","a","y","o","u","t","/","L","a","y","o","u","t","C","o","n","t","e","n","t",".","t","s","x">>

CanvasSelectionContextFile == <<"/","(","a","p","p","-","p","a","g","e","s","-","b","r","o","w","s","e","r",")","/",".","/","s","r","c","/","c","o","n","t","e","x","t","/","C","a","n","v","a","s","S","e","l","e","c","t","i","o","n","C","o","n","t","e","x","t",".","t","s","x">>

exampleA ==
    [domLabel |-> Some(<<"d","i","v",".","t","a","b","-","i","t","e","m">>),
     frames |-> << Frame("A0", Null, TabBarFile, 68, 11),
                   Frame("A1", Null, TabBarFile, 43, 11),
                   Frame("A2", Some(<<"R","i","g","h","t","P","a","n","e","l">>), RightPanelFile, 28, 86) >>]

exampleB ==
    [domLabel |-> Some(<<"b","u","t","t","o","n",".","c","a","n","v","a","s","-","b","a","r","-","b","t","n">>),
     frames |-> << Frame("B0", Some(<<"C","a","n","v","a","s","B","a","r">>), CanvasBarFile, 21, 201),
                   Frame("B1", Some(<<"L","a","y","o","u","t","C","o","n","t","e","n","t","I","n","n","e","r">>), LayoutContentFile, 37, 11),
                   Frame("B2", Some(<<"C","a","n","v","a","s","S","e","l","e","c","t","i","o","n","P","r","o","v","i","d","e","r">>),
                         CanvasSelectionContextFile, 21, 11) >>]

FrameLists == UNION {[1..n -> FramePool] : n \in 0..MaxFrames}

Selections ==
    {[domLabel |-> d, frames |-> fs] : d \in {Null, Some(<<"d","i","v">>)}, fs \in FrameLists}
    \cup {exampleA, exampleB}

NormIdle ==
    /\ file = <<>>
    /\ normalized = Null
    /\ renormalized = Null

CmdIdle ==
    /\ cmd = "none"
    /\ nFrames = <<>>
    /\ rendered = Null
    /\ usedIn = Null
    /\ usedInCalls = 0
    /\ opened = Null
    /\ message = [kind |-> "none"]

WrapIdle ==
    /\ wFrame = Null
    /\ wResult = Null

ValIdle ==
    /\ vDoc = Null
    /\ vResult = Null

SrvIdle ==
    /\ reqs = <<>>
    /\ completed = <<>>
    /\ statusBar = Null

ParseIdle ==
    /\ pText = <<>>
    /\ pPayload = Null
    /\ pRaw = Null
    /\ pFrame = Null

BrowserIdle ==
    /\ endpointUrl = <<>>
    /\ allowNonLocalhost = FALSE
    /\ reactGrab = Null
    /\ bridge = "not started"
    /\ cleanedUp = FALSE
    /\ plugin = FALSE
    /\ onSelectionCb = FALSE
    /\ copyListener = FALSE
    /\ handlers = <<>>
    /\ clipboard = <<>>
    /\ lastHash = Null
    /\ timer = Null
    /\ events = <<>>
    /\ sends = <<>>
    /\ posts = <<>>

DevIdle ==
    /\ nodeEnv = "development"
    /\ effects = <<>>

OtherIdle ==
    /\ ParseIdle
    /\ BrowserIdle
    /\ DevIdle

LifeIdle ==
    /\ server = Null
    /\ serverRunning = FALSE
    /\ servers = <<>>
    /\ statusBarItem = Null
    /\ notice = Null
    /\ active = TRUE

InitClassify ==
    /\ lastSelection \in {Null} \cup {Some(s) : s \in Selections}
    /\ CmdIdle
    /\ SrvIdle
    /\ LifeIdle
    /\ NormIdle
    /\ WrapIdle
    /\ ValIdle
    /\ OtherIdle

NextClassify ==
    \/ openRenderedBy
    \/ openUsedIn
    \/ showLastSelection
    \/ showQuickPick

SpecClassify == InitClassify /\ [][NextClassify]_vars

----------------------------------------------------------------------------
(* Inputs of normalizePath: paths built from at most MaxTokens path pieces *)

MaxTokens == 5

PathTokens == {<<"/">>, <<"\\">>, <<"s","r","c">>, <<"a">>}

RECURSIVE Flatten(_)
Flatten(ts) == IF Len(ts) = 0 THEN <<>> ELSE Head(ts) \o Flatten(Tail(ts))

TokenSeqs == UNION {[1..n -> PathTokens] : n \in 0..MaxTokens}

Paths == {Flatten(ts) : ts \in TokenSeqs}

InitNormalize ==
    /\ file \in Paths
    /\ normalized = Null
    /\ renormalized = Null
    /\ lastSelection = Null
    /\ CmdIdle
    /\ SrvIdle
    /\ LifeIdle
    /\ WrapIdle
    /\ ValIdle
    /\ OtherIdle

\* const n = normalizePath(file)
Normalize ==
    /\ IsNull(normalized)
    /\ normalized' = Some(normalizePath(file))
    /\ UNCHANGED <<file, renormalized, lastSelection, cmdVars, wrapVars, valVars, srvVars, lifeVars, otherVars>>

\* normalizePath(n): the normalizer applied to an already normalized path
Renormalize ==
    /\ ~IsNull(normalized)
    /\ IsNull(renormalized)
    /\ renormalized' = Some(normalizePath(Val(normalized)))
    /\ UNCHANGED <<file, normalized, lastSelection, cmdVars, wrapVars, valVars, srvVars, lifeVars, otherVars>>

NextNormalize == Normalize \/ Renormalize

SpecNormalize == InitNormalize /\ [][NextNormalize]_vars

----------------------------------------------------------------------------
(* Inputs of isWrapper: normalized frames whose path is built from at most *)
(* MaxFileTokens pieces and whose name is null or built from at most       *)
(* MaxNameTokens pieces.                                                   *)

MaxFileTokens == 4

MaxNameTokens == 2

FileTokens == {<<"/">>, <<"c","o","n","t","e","x","t">>, <<"p","r","o","v","i","d","e","r","s">>, <<"s","r","c">>}

NameTokens == {<<"P","r","o","v","i","d","e","r">>, <<"C","o","n","t","e","x","t">>, <<"B","o","u","n","d","a","r","y">>, <<"p","r","o","v","i","d","e","r">>, <<"F","o","o">>}

WrapFiles == {Flatten(ts) : ts \in UNION {[1..n -> FileTokens] : n \in 0..MaxFileTokens}}

WrapNames ==
    {Null} \cup
    {Some(Flatten(ts)) : ts \in UNION {[1..n -> NameTokens] : n \in 0..MaxNameTokens}}

InitWrapper ==
    /\ wFrame \in {Some([raw |-> "raw", name |-> n, file |-> f, line |-> 1, col |-> 1,
                         normalizedFile |-> f]) : n \in WrapNames, f \in WrapFiles}
    /\ wResult = Null
    /\ lastSelection = Null
    /\ CmdIdle
    /\ SrvIdle
    /\ LifeIdle
    /\ NormIdle
    /\ ValIdle
    /\ OtherIdle

\* const w = isWrapper(frame)
ApplyIsWrapper ==
    /\ IsNull(wResult)
    /\ wResult' = Some(isWrapper(Val(wFrame)))
    /\ UNCHANGED <<wFrame, normVars, lastSelection, cmdVars, valVars, srvVars, lifeVars, otherVars>>

NextWrapper == ApplyIsWrapper

SpecWrapper == InitWrapper /\ [][NextWrapper]_vars

----------------------------------------------------------------------------
(* Inputs of validateSelection: JSON values that are not objects, and      *)
(* objects whose frames is not an array or an array of at most             *)
(* MaxDocFrames elements of FrameDocs.                                     *)

MaxDocFrames == 2

FrameDoc(raw, name, f, line, col) ==
    JObject([raw |-> raw, name |-> name, file |-> f, line |-> line, col |-> col])

Doc(domLabel, frames) == JObject([domLabel |-> domLabel, frames |-> frames])

\* 1, 0, 1.5, the string "1" and an absent property
LineDocs == {JNumber(2), JNumber(0), JNumber(3), JString(<<"1">>), JUndefined}

FrameDocs ==
    {JNull, JArray(<<>>), JString(<<"F","o","o"," ","(","a","t"," ","/","s","r","c","/","a",".","t","s","x",":","1",":","1",")">>)}
    \cup {FrameDoc(raw, name, f, JNumber(2), JNumber(2)) :
            raw \in {JString(<<"r">>), JUndefined},
            name \in {JNull, JString(<<"F","o","o">>), JNumber(2)},
            f \in {JString(<<"/","s","r","c","/","a",".","t","s","x">>), JUndefined}}
    \cup {FrameDoc(JString(<<"r">>), JNull, JString(<<"/","s","r","c","/","a",".","t","s","x">>), line, col) :
            line \in LineDocs, col \in {JNumber(2), JNumber(3)}}
    \cup {FrameDoc(JString(<<"r">>), JNull, JString(<<"/","s","r","c","/","a",".","t","s","x">>), JNumber(4), col) :
            col \in LineDocs}
    \cup {FrameDoc(JString(<<"r">>), JNull, f, line, JNumber(2)) :
            f \in {JNull}, line \in {JNumber(0)}}
    \cup {FrameDoc(JString(<<"r">>), name, JString(<<"/","s","r","c","/","a",".","t","s","x">>), line, JNumber(0)) :
            name \in {JUndefined}, line \in {JNumber(2), JNumber(0)}}

FramesDocs ==
    {JUndefined, JNull, JString(<<"[","]">>), Doc(JNull, JArray(<<>>))}
    \cup {JArray(fs) : fs \in UNION {[1..n -> FrameDocs] : n \in 0..MaxDocFrames}}

Docs ==
    {JNull, JArray(<<>>), JString(<<"x">>), JNumber(2)}
    \cup {Doc(d, fs) : d \in {JNull, JString(<<"d","i","v">>), JNumber(2), JUndefined},
                       fs \in FramesDocs}

InitValidate ==
    /\ vDoc \in {Some(d) : d \in Docs}
    /\ vResult = Null
    /\ lastSelection = Null
    /\ CmdIdle
    /\ SrvIdle
    /\ LifeIdle
    /\ NormIdle
    /\ WrapIdle
    /\ OtherIdle

\* const validationError = validateSelection(parsed)
Validate ==
    /\ IsNull(vResult)
    /\ vResult' = Some(validateSelection(Val(vDoc)))
    /\ UNCHANGED <<vDoc, normVars, lastSelection, cmdVars, wrapVars, srvVars, lifeVars, otherVars>>

NextValidate == Validate

SpecValidate == InitValidate /\ [][NextValidate]_vars

----------------------------------------------------------------------------
(* HTTP server of the bridge.                                              *)
(*                                                                         *)
(* A request body is a text sent in chunks. The texts clients send are the *)
(* entries of Texts: the JSON value the text denotes (null when the text   *)
(* is not JSON) and the lengths of its chunks. The accumulated body is the *)
(* sequence of the chunks received; JSON.parse yields the value of the     *)
(* text the body spells out, and throws on anything else.                  *)

MAX_BODY == 200 * 1024

\* JSON.parse(JSON.stringify(payload)) of a payload of the test harness
JsonOfFrame(f) ==
    FrameDoc(JString(f.raw),
             IF IsNull(f.name) THEN JNull ELSE JString(Val(f.name)),
             JString(f.file), JNumber(2 * f.line), JNumber(2 * f.col))

JsonOf(sel) ==
    Doc(IF IsNull(sel.domLabel) THEN JNull ELSE JString(Val(sel.domLabel)),
        JArray([k \in 1..Len(sel.frames) |-> JsonOfFrame(sel.frames[k])]))

\* parsed as Selection: the same document read through the Selection type
AsFrame(f) ==
    Frame(Props(f).raw.v,
          IF Props(f).name.t = "null" THEN Null ELSE Some(Props(f).name.v),
          Props(f).file.v, Props(f).line.v[1] \div 2, Props(f).col.v[1] \div 2)

AsSelection(d) ==
    [domLabel |-> IF Props(d).domLabel.t = "null" THEN Null
                  ELSE Some(Props(d).domLabel.v),
     frames |-> [k \in 1..Len(Props(d).frames.v) |-> AsFrame(Props(d).frames.v[k])]]

SmallSelection ==
    [domLabel |-> Null, frames |-> <<Frame("Foo", Some(<<"F","o","o">>), FileA, 3, 2)>>]

LibSelection ==
    [domLabel |-> Some(<<"d","i","v">>), frames |-> <<Frame("d2", Null, FileLib, 2, 1)>>]

PlainSelection ==
    [domLabel |-> Some(<<"p">>), frames |-> <<Frame("Bar", Some(<<"B","a","r">>), FileA, 1, 1)>>]

NoFrames == [domLabel |-> Null, frames |-> <<>>]

LineZero ==
    [domLabel |-> Null, frames |-> <<Frame("a0", Null, FileA, 0, 1)>>]

Text(contentType, json, chunks) ==
    [contentType |-> contentType, json |-> json, chunks |-> chunks]

Texts ==
    << Text("application/json", Some(JsonOf(SmallSelection)), <<70, 50>>),
       Text("application/json", Some(JsonOf(LibSelection)), <<MAX_BODY>>),
       Text("application/json", Null, <<7>>),
       Text("application/json", Some(JsonOf(NoFrames)), <<30>>),
       Text("application/json", Some(JsonOf(LineZero)), <<90>>),
       Text("application/json", Some(JsonOf(SmallSelection)), <<MAX_BODY, 1, 1>>),
       Text("text/plain", Some(JsonOf(PlainSelection)), <<120>>) >>

\* the k-th chunk of text t
Chunk(t, k) == [text |-> t, k |-> k, len |-> Texts[t].chunks[k]]

\* body.length
RECURSIVE BodyLength(_)
BodyLength(body) == IF Len(body) = 0 THEN 0 ELSE Head(body).len + BodyLength(Tail(body))

\* JSON.parse(body): <<value>>, or null when it throws
JSONParse(body) ==
    LET spelled == {t \in DOMAIN Texts :
                       body = [k \in 1..Len(Texts[t].chunks) |-> Chunk(t, k)]}
    IN  IF spelled = {} THEN Null ELSE Texts[CHOOSE t \in spelled : TRUE].json

Response(status, body) == [status |-> status, body |-> body]

\* the body of the health check
HealthBody ==
    [status |-> "ok", server |-> "react-grab-bridge",
     lastSelection |->
        IF ~IsNull(lastSelection)
        THEN Some([domLabel |-> Val(lastSelection).domLabel,
                   frameCount |-> Len(Val(lastSelection).frames)])
        ELSE Null]

\* the server bound to 127.0.0.1:3344 accepts connections
Listening == \E id \in DOMAIN servers : servers[id].state = "listening"

ListeningServer == CHOOSE id \in DOMAIN servers : servers[id].state = "listening"

\* a request answered by the request listener itself
Answered(method, url, response) ==
    [srv |-> ListeningServer, method |-> method, url |-> url, contentType |-> Null,
     phase |-> "closed",
     text |-> 0, delivered |-> 0,
     body |-> <<>>, tooLarge |-> FALSE, responses |-> <<response>>,
     parsed |-> FALSE, validated |-> FALSE, classified |-> FALSE]

\* a POST /selection whose 'data' and 'end' handlers are registered
Receiving(method, url, text) ==
    [srv |-> ListeningServer, method |-> method, url |-> url,
     contentType |-> Some(Texts[text].contentType),
     phase |-> "receiving", text |-> text,
     delivered |-> 0, body |-> <<>>, tooLarge |-> FALSE, responses |-> <<>>,
     parsed |-> FALSE, validated |-> FALSE, classified |-> FALSE]

MaxRequests == 2

Methods == {"OPTIONS", "GET", "POST"}

Urls == {"/", "/health", "/selection"}

\* the requests clients make: a preflight, the health checks, the POST of a
\* selection, and a wrong method and a wrong path
Routes ==
    {route \in Methods \X Urls :
        /\ route[1] = "OPTIONS" => route[2] = "/selection"
        /\ route[1] = "POST" => route[2] # "/"}

Route_anyPost(method, url) ==
    IF method = "OPTIONS" THEN "preflight"
    ELSE IF method = "GET" /\ (url = "/" \/ url = "/health") THEN "health"
    ELSE IF method # "POST" THEN "not found"
    ELSE "selection"

\* the branch of the request listener that handles the request
Route(method, url) ==
    IF method = "OPTIONS" THEN "preflight"
    ELSE IF method = "GET" /\ (url = "/" \/ url = "/health") THEN "health"
    ELSE IF method # "POST" \/ url # "/selection" THEN "not found"
    ELSE "selection"

\* the request listener of http.createServer
OnRequest(method, url, text) ==
    /\ Listening
    /\ IF Route(method, url) = "preflight"
       THEN /\ text = 0
            /\ reqs' = Append(reqs, Answered(method, url, Response(204, Null)))
       ELSE IF Route(method, url) = "health"
       THEN /\ text = 0
            /\ reqs' = Append(reqs, Answered(method, url, Response(200, Some(HealthBody))))
       ELSE IF Route(method, url) = "not found"
       THEN /\ text = 0
            /\ reqs' = Append(reqs, Answered(method, url,
                                     Response(404, Some([error |-> <<"N","o","t"," ","f","o","u","n","d">>]))))
       ELSE /\ text \in DOMAIN Texts
            /\ reqs' = Append(reqs, Receiving(method, url, text))
    /\ UNCHANGED <<lastSelection, completed, statusBar, cmdVars, normVars, wrapVars, valVars, lifeVars, otherVars>>

AfterData_noLimit(req, chunk) ==
    [req EXCEPT !.delivered = @ + 1, !.body = Append(@, chunk)]

\* the request once its 'data' handler has run on the chunk; res.writeHead
\* throws ERR_HTTP_HEADERS_SENT when the head of the response was sent, and
\* the handler ends there
AfterData(req, chunk) ==
    IF BodyLength(Append(req.body, chunk)) > MAX_BODY
    THEN IF req.responses = <<>>
         THEN [req EXCEPT !.delivered = @ + 1, !.body = Append(@, chunk),
                          !.tooLarge = TRUE,
                          !.responses = Append(@, Response(413,
                                            Some([error |-> <<"B","o","d","y"," ","t","o","o"," ","l","a","r","g","e">>]))),
                          !.phase = "destroyed"]
         ELSE [req EXCEPT !.delivered = @ + 1, !.body = Append(@, chunk),
                          !.tooLarge = TRUE]
    ELSE [req EXCEPT !.delivered = @ + 1, !.body = Append(@, chunk)]

\* the 'data' handlers appending to one body shared by the requests
OnData_sharedBody(r) ==
    /\ r \in DOMAIN reqs
    /\ reqs[r].phase \in {"receiving", "destroyed"}
    /\ reqs[r].delivered < Len(Texts[reqs[r].text].chunks)
    /\ reqs' = [q \in DOMAIN reqs |->
                  IF q = r
                  THEN AfterData(reqs[q], Chunk(reqs[r].text, reqs[r].delivered + 1))
                  ELSE IF reqs[q].phase = "receiving"
                  THEN [reqs[q] EXCEPT !.body = Append(@, Chunk(reqs[r].text, reqs[r].delivered + 1))]
                  ELSE reqs[q]]
    /\ UNCHANGED <<lastSelection, completed, statusBar, cmdVars, normVars, wrapVars, valVars, lifeVars, otherVars>>

\* req.on("data"): the next chunk of request r arrives; whether a request
\* still emits what it had buffered once req.destroy() was called depends on
\* the runtime, so it may
OnData(r) ==
    /\ r \in DOMAIN reqs
    /\ reqs[r].phase \in {"receiving", "destroyed"}
    /\ reqs[r].delivered < Len(Texts[reqs[r].text].chunks)
    /\ reqs' = [reqs EXCEPT ![r] = AfterData(@, Chunk(reqs[r].text, reqs[r].delivered + 1))]
    /\ UNCHANGED <<lastSelection, completed, statusBar, cmdVars, normVars, wrapVars, valVars, lifeVars, otherVars>>

\* the status bar message shown for an accepted selection, if any
StatusBarAfter(sel) ==
    IF ~IsNull(findRenderedBy(normalizeFrames(sel)))
    THEN Some([label |-> IF IsNull(sel.domLabel) THEN <<"(","u","n","k","n","o","w","n",")">> ELSE Val(sel.domLabel),
               frames |-> Len(sel.frames)])
    ELSE statusBar

\* the response of the 'end' handler to a body it rejects, or null
Rejection(body) ==
    IF IsNull(JSONParse(body))
    THEN Some(Response(400, Some([error |-> <<"I","n","v","a","l","i","d"," ","J","S","O","N">>])))
    ELSE IF ~IsNull(validateSelection(Val(JSONParse(body))))
    THEN Some(Response(400, Some([error |-> Val(validateSelection(Val(JSONParse(body))))])))
    ELSE Null

\* the 'end' handler without its tooLarge guard
EndSkips_never(req) == FALSE

\* the 'end' handler returns at once
EndSkips(req) == req.tooLarge

Stored_clearsOnReject(body, last) ==
    IF IsNull(Rejection(body)) THEN Some(AsSelection(Val(JSONParse(body)))) ELSE Null

Stored_beforeValidation(body, last) ==
    IF ~IsNull(JSONParse(body)) THEN Some(AsSelection(Val(JSONParse(body)))) ELSE last

Stored_keepsFirst(body, last) ==
    IF IsNull(Rejection(body)) /\ IsNull(last)
    THEN Some(AsSelection(Val(JSONParse(body)))) ELSE last

\* lastSelection once the 'end' handler has run on a body within the limit
Stored(body, last) ==
    IF IsNull(Rejection(body)) THEN Some(AsSelection(Val(JSONParse(body)))) ELSE last

\* the request once a response was written to it: a second res.writeHead
\* throws and writes nothing
Written(req, response) ==
    IF req.responses = <<>> THEN Append(req.responses, response) ELSE req.responses

\* req.on("end"): every chunk of request r was received
OnEnd(r) ==
    /\ r \in DOMAIN reqs
    /\ reqs[r].phase \in {"receiving", "destroyed"}
    /\ reqs[r].delivered = Len(Texts[reqs[r].text].chunks)
    /\ completed' = Append(completed, r)
    /\ IF EndSkips(reqs[r])
       THEN /\ reqs' = [reqs EXCEPT ![r].phase = "closed"]
            /\ UNCHANGED <<lastSelection, statusBar>>
       ELSE /\ lastSelection' = Stored(reqs[r].body, lastSelection)
            /\ IF ~IsNull(Rejection(reqs[r].body))
               THEN /\ reqs' = [reqs EXCEPT
                           ![r].phase = "closed", ![r].parsed = TRUE,
                           ![r].validated = ~IsNull(JSONParse(reqs[r].body)),
                           ![r].responses = Written(reqs[r], Val(Rejection(reqs[r].body)))]
                    /\ UNCHANGED statusBar
               ELSE /\ reqs' = [reqs EXCEPT
                           ![r].phase = "closed", ![r].parsed = TRUE,
                           ![r].validated = TRUE, ![r].classified = TRUE,
                           ![r].responses = Written(reqs[r], Response(200, Some([ok |-> TRUE])))]
                    /\ statusBar' = StatusBarAfter(Val(lastSelection'))
    /\ UNCHANGED <<cmdVars, normVars, wrapVars, valVars, lifeVars, otherVars>>

\* statusBarItem.text as updateStatusBar sets it
StatusBarText(running) == IF running THEN "React Grab: On" ELSE "React Grab: Off"

Created == [state |-> "starting", stopping |-> FALSE]

\* reactGrab.startBridge
startServer ==
    /\ IF ~IsNull(server)
       THEN /\ notice' = Some("React Grab Bridge already running.")
            /\ UNCHANGED <<server, servers>>
       ELSE /\ servers' = Append(servers, Created)
            /\ server' = Some(Len(servers'))
            /\ UNCHANGED notice
    /\ UNCHANGED <<serverRunning, statusBarItem, active, lastSelection,
                   srvVars, cmdVars, normVars, wrapVars, valVars, otherVars>>

\* the callback of server.listen: server id is bound to the port
OnListening(id) ==
    /\ id \in DOMAIN servers
    /\ servers[id].state = "starting"
    /\ ~Listening
    /\ servers' = [servers EXCEPT ![id].state = "listening"]
    /\ serverRunning' = TRUE
    /\ statusBarItem' = Some(StatusBarText(serverRunning'))
    /\ notice' = Some("React Grab Bridge started on 127.0.0.1:3344")
    /\ UNCHANGED <<server, active, lastSelection, srvVars, cmdVars, normVars, wrapVars,
                   valVars, otherVars>>

\* server.on("error"): server id could not be bound to the port, or, once
\* it listens, could not accept a connection, which leaves it listening
OnError(id) ==
    /\ id \in DOMAIN servers
    /\ servers[id].state \in {"starting", "listening"}
    /\ servers' = [servers EXCEPT ![id].state =
                       IF @ = "starting" THEN "failed" ELSE @]
    /\ notice' = Some("React Grab Bridge error")
    /\ server' = Null
    /\ serverRunning' = FALSE
    /\ statusBarItem' = Some(StatusBarText(serverRunning'))
    /\ UNCHANGED <<active, lastSelection, srvVars, cmdVars, normVars, wrapVars, valVars,
                   otherVars>>

\* server.close() on server id: it stops accepting connections
Close(id, callback) ==
    [servers EXCEPT ![id] =
        [state |-> IF @.state \in {"starting", "listening"} THEN "closing" ELSE @.state,
         stopping |-> @.stopping \/ callback]]

stopServer_resetsAtOnce ==
    /\ IF IsNull(server)
       THEN /\ notice' = Some("React Grab Bridge is not running.")
            /\ UNCHANGED <<server, servers>>
       ELSE /\ servers' = Close(Val(server), TRUE)
            /\ server' = Null
            /\ UNCHANGED notice
    /\ UNCHANGED <<serverRunning, statusBarItem, active, lastSelection,
                   srvVars, cmdVars, normVars, wrapVars, valVars, otherVars>>

\* reactGrab.stopBridge
stopServer ==
    /\ IF IsNull(server)
       THEN /\ notice' = Some("React Grab Bridge is not running.")
            /\ UNCHANGED servers
       ELSE /\ servers' = Close(Val(server), TRUE)
            /\ UNCHANGED notice
    /\ UNCHANGED <<server, serverRunning, statusBarItem, active, lastSelection,
                   srvVars, cmdVars, normVars, wrapVars, valVars, otherVars>>

\* the 'close' event of server id, once its requests are over; it runs the
\* callback stopServer passed to close, if any
OnClose(id) ==
    /\ id \in DOMAIN servers
    /\ servers[id].state = "closing"
    /\ \A r \in DOMAIN reqs : reqs[r].srv = id => reqs[r].phase # "receiving"
    /\ servers' = [servers EXCEPT ![id] = [state |-> "closed", stopping |-> FALSE]]
    /\ IF servers[id].stopping
       THEN /\ server' = Null
            /\ serverRunning' = FALSE
            /\ statusBarItem' = Some(StatusBarText(serverRunning'))
            /\ notice' = Some("React Grab Bridge stopped.")
       ELSE UNCHANGED <<server, serverRunning, statusBarItem, notice>>
    /\ UNCHANGED <<active, lastSelection, srvVars, cmdVars, normVars, wrapVars, valVars,
                   otherVars>>

deactivate_clearsSelection ==
    /\ active
    /\ active' = FALSE
    /\ IF ~IsNull(server)
       THEN /\ servers' = Close(Val(server), FALSE)
            /\ server' = Null
            /\ serverRunning' = FALSE
       ELSE UNCHANGED <<server, serverRunning, servers>>
    /\ lastSelection' = Null
    /\ UNCHANGED <<statusBarItem, notice,
                   srvVars, cmdVars, normVars, wrapVars, valVars, otherVars>>

\* deactivate: VS Code calls it once and then disposes the commands
deactivate ==
    /\ active
    /\ active' = FALSE
    /\ IF ~IsNull(server)
       THEN /\ servers' = Close(Val(server), FALSE)
            /\ server' = Null
            /\ serverRunning' = FALSE
       ELSE UNCHANGED <<server, serverRunning, servers>>
    /\ UNCHANGED <<statusBarItem, notice, lastSelection,
                   srvVars, cmdVars, normVars, wrapVars, valVars, otherVars>>

Requests ==
    \/ /\ Len(reqs) < MaxRequests
       /\ \E route \in Routes, text \in 0..Len(Texts) : OnRequest(route[1], route[2], text)
    \/ \E r \in DOMAIN reqs : OnData(r)
    \/ \E r \in DOMAIN reqs : OnEnd(r)

Commands ==
    \/ openRenderedBy
    \/ openUsedIn
    \/ showLastSelection
    \/ showQuickPick

\* the bridge while it runs: activate, reactGrab.startBridge and the listen
\* callback have run
Init ==
    /\ lastSelection = Null
    /\ CmdIdle
    /\ SrvIdle
    /\ server = Some(1)
    /\ serverRunning = TRUE
    /\ servers = <<[Created EXCEPT !.state = "listening"]>>
    /\ statusBarItem = Some(StatusBarText(serverRunning))
    /\ notice = Some("React Grab Bridge started on 127.0.0.1:3344")
    /\ active = TRUE
    /\ NormIdle
    /\ WrapIdle
    /\ ValIdle
    /\ OtherIdle

Next ==
    \/ Requests
    \/ Commands

Spec == Init /\ [][Next]_vars

----------------------------------------------------------------------------
(* The extension from activation on: the bridge is started and stopped    *)
(* while requests arrive and commands run.                                 *)

MaxLifeRequests == 1

MaxServers == 1

\* the state activate leaves: the status bar item shown, no server
InitLifecycle ==
    /\ lastSelection = Null
    /\ CmdIdle
    /\ SrvIdle
    /\ server = Null
    /\ serverRunning = FALSE
    /\ servers = <<>>
    /\ statusBarItem = Some(StatusBarText(serverRunning))
    /\ notice = Null
    /\ active = TRUE
    /\ NormIdle
    /\ WrapIdle
    /\ ValIdle
    /\ OtherIdle

\* the outcome of server.listen is known: listen binds 127.0.0.1:3344 and
\* emits 'listening' or 'error' from the next-tick queue, which the runtime
\* drains before it handles another command, request or event
Settled == \A id \in DOMAIN servers : servers[id].state # "starting"

NextLifecycle ==
    \/ Settled /\ active /\ (IsNull(server) => Len(servers) < MaxServers) /\ startServer
    \/ \E id \in DOMAIN servers : OnListening(id)
    \/ \E id \in DOMAIN servers : (Settled \/ servers[id].state = "starting") /\ OnError(id)
    \/ Settled /\ active /\ stopServer
    \/ \E id \in DOMAIN servers : Settled /\ OnClose(id)
    \/ Settled /\ deactivate
    \/ /\ Settled
       /\ Len(reqs) < MaxLifeRequests
       /\ \E route \in Routes, text \in 0..Len(Texts) : OnRequest(route[1], route[2], text)
    \/ \E r \in DOMAIN reqs : Settled /\ OnData(r)
    \/ \E r \in DOMAIN reqs : Settled /\ OnEnd(r)
    \/ Settled /\ active /\ Commands

SpecLifecycle == InitLifecycle /\ [][NextLifecycle]_vars

----------------------------------------------------------------------------
(* The server handle: the bridge is started and stopped up to MaxStarts    *)
(* times while the callbacks of the servers and the events of at most      *)
(* MaxStopRequests requests interleave.                                    *)

MaxStarts == 2

MaxStopRequests == 1

\* the POSTs in flight while the bridge stops: a selection sent in two chunks
StopTexts == {1}

NextServers ==
    \/ Settled /\ active /\ (IsNull(server) => Len(servers) < MaxStarts) /\ startServer
    \/ \E id \in DOMAIN servers : OnListening(id)
    \/ \E id \in DOMAIN servers : (Settled \/ servers[id].state = "starting") /\ OnError(id)
    \/ Settled /\ active /\ stopServer
    \/ \E id \in DOMAIN servers : Settled /\ OnClose(id)
    \/ Settled /\ deactivate
    \/ /\ Settled
       /\ Len(reqs) < MaxStopRequests
       /\ \E text \in StopTexts : OnRequest("POST", "/selection", text)
    \/ \E r \in DOMAIN reqs : Settled /\ OnData(r)
    \/ \E r \in DOMAIN reqs : Settled /\ OnEnd(r)

SpecServers == InitLifecycle /\ [][NextServers]_vars

\* ... with every request in flight getting its events and every closing
\* server its 'close' event once its connections are over
SpecStop ==
    /\ SpecServers
    /\ WF_vars(\E id \in DOMAIN servers : OnListening(id) \/ OnError(id))
    /\ WF_vars(\E r \in DOMAIN reqs : Settled /\ OnData(r))
    /\ WF_vars(\E r \in DOMAIN reqs : Settled /\ OnEnd(r))
    /\ WF_vars(\E id \in DOMAIN servers : Settled /\ OnClose(id))

----------------------------------------------------------------------------
(* Parsing of stack lines: parseFrame of the test harness and              *)
(* parseReactGrabText of the browser bridge.                               *)
(*                                                                         *)
(* The regular expressions are matched the way the backtracking matcher    *)
(* does: every quantifier is a length, the lengths that make the whole     *)
(* pattern match are enumerated, and the match returned is the one a       *)
(* greedy quantifier makes longest and a lazy one shortest, the quantifiers *)
(* taken from left to right. Positions are 0-based.                        *)

\* \s
IsSpace(c) == c \in {" ", "\t", "\r"}

\* \d
IsDigit(c) == c \in {"0", "1", "2", "3", "4", "5", "6", "7", "8", "9"}

\* the number of characters from position k on that are whitespace
RECURSIVE SpaceRun(_, _)
SpaceRun(s, k) ==
    IF k < Len(s) /\ IsSpace(s[k + 1]) THEN 1 + SpaceRun(s, k + 1) ELSE 0

\* the number of characters from position k on that are digits
RECURSIVE DigitRun(_, _)
DigitRun(s, k) ==
    IF k < Len(s) /\ IsDigit(s[k + 1]) THEN 1 + DigitRun(s, k + 1) ELSE 0

DigitValue(c) ==
    CHOOSE v \in 0..9 : <<"0", "1", "2", "3", "4", "5", "6", "7", "8", "9">>[v + 1] = c

\* parseInt(digits, 10), for digits matched by \d+
RECURSIVE parseInt(_)
parseInt(digits) ==
    IF Len(digits) = 0 THEN 0
    ELSE 10 * parseInt(SubSeq(digits, 1, Len(digits) - 1)) + DigitValue(digits[Len(digits)])

\* s.trimEnd()
RECURSIVE trimEnd(_)
trimEnd(s) ==
    IF Len(s) > 0 /\ IsSpace(s[Len(s)]) THEN trimEnd(SubSeq(s, 1, Len(s) - 1)) ELSE s

\* s.trim()
trim(s) == LET t == trimEnd(s) IN SubSeq(t, SpaceRun(t, 0) + 1, Len(t))

\* :(\d+):(\d+) followed by close and, with slack, \s* up to the end of s,
\* matched at position k
MatchesTail(s, k, close, slack) ==
    LET second == k + 1 + DigitRun(s, k + 1)
        after == second + 1 + DigitRun(s, second + 1) + Len(close)
    IN  /\ MatchesAt(s, <<":">>, k)
        /\ DigitRun(s, k + 1) >= 1
        /\ MatchesAt(s, <<":">>, second)
        /\ DigitRun(s, second + 1) >= 1
        /\ MatchesAt(s, close, after - Len(close))
        /\ IF slack THEN after + SpaceRun(s, after) = Len(s) ELSE after = Len(s)

\* the groups (\d+):(\d+) of the tail matched at position k
TailLine(s, k) == SubSeq(s, k + 2, k + 1 + DigitRun(s, k + 1))

TailCol(s, k) ==
    LET second == k + 1 + DigitRun(s, k + 1)
    IN  SubSeq(s, second + 2, second + 1 + DigitRun(s, second + 1))

\* the positions where the tail matches
Tails(s, close, slack) == {k \in 0..(Len(s) - 1) : MatchesTail(s, k, close, slack)}

Max(S) == CHOOSE x \in S : \A y \in S : y <= x

\* (.+):(\d+):(\d+) with the group allowed to begin at one of starts; a later
\* start is a longer match of the greedy \s+ before it
MatchPlain(s, starts, slack) ==
    LET tails == Tails(s, <<>>, slack)
        ok == {p \in starts : \E q \in tails : p < q}
    IN  IF ok = {} THEN Null
        ELSE LET p == Max(ok)
                 q == Max({k \in tails : p < k})
             IN  Some([name |-> Null, file |-> SubSeq(s, p + 1, q),
                       line |-> parseInt(TailLine(s, q)), col |-> parseInt(TailCol(s, q))])

\* the positions where \s+\(at matches and the name can end
NameEnds(s) ==
    {a \in 0..(Len(s) - 1) :
        SpaceRun(s, a) >= 1 /\ MatchesAt(s, <<"(","a","t">>, a + SpaceRun(s, a))}

\* the positions where the file can begin, after the \s+ that follows (at
FileStarts(s, a) ==
    LET c == a + SpaceRun(s, a) + 3
    IN  {c + k : k \in 1..SpaceRun(s, c)}

MatchNamed_swapsLineCol(s, starts, slack) ==
    LET tails == Tails(s, <<")">>, slack)
        Matches(p, a) == \E f \in FileStarts(s, a) : \E q \in tails : p < a /\ f < q
        ok == {p \in starts : \E a \in NameEnds(s) : Matches(p, a)}
    IN  IF ok = {} THEN Null
        ELSE LET p == Max(ok)
                 a == CHOOSE x \in NameEnds(s) :
                          Matches(p, x) /\ \A y \in NameEnds(s) : Matches(p, y) => x <= y
                 f == Max({x \in FileStarts(s, a) : \E q \in tails : x < q})
                 q == Max({k \in tails : f < k})
             IN  Some([name |-> Some(SubSeq(s, p + 1, a)), file |-> SubSeq(s, f + 1, q),
                       line |-> parseInt(TailCol(s, q)), col |-> parseInt(TailLine(s, q))])

\* (.+?)\s+\(at\s+(.+):(\d+):(\d+)\) with the name allowed to begin at one of
\* starts
MatchNamed(s, starts, slack) ==
    LET tails == Tails(s, <<")">>, slack)
        Matches(p, a) == \E f \in FileStarts(s, a) : \E q \in tails : p < a /\ f < q
        ok == {p \in starts : \E a \in NameEnds(s) : Matches(p, a)}
    IN  IF ok = {} THEN Null
        ELSE LET p == Max(ok)
                 a == CHOOSE x \in NameEnds(s) :
                          Matches(p, x) /\ \A y \in NameEnds(s) : Matches(p, y) => x <= y
                 f == Max({x \in FileStarts(s, a) : \E q \in tails : x < q})
                 q == Max({k \in tails : f < k})
             IN  Some([name |-> Some(SubSeq(s, p + 1, a)), file |-> SubSeq(s, f + 1, q),
                       line |-> parseInt(TailLine(s, q)), col |-> parseInt(TailCol(s, q))])

\* parseFrame(raw): the frame, or null where the code throws
parseFrame(raw) ==
    LET named == MatchNamed(raw, {0}, FALSE)
        plain == MatchPlain(raw, {0}, FALSE)
    IN  IF ~IsNull(named)
        THEN Some(Frame(raw, Val(named).name, Val(named).file, Val(named).line, Val(named).col))
        ELSE IF ~IsNull(plain)
        THEN Some(Frame(raw, Null, Val(plain).file, Val(plain).line, Val(plain).col))
        ELSE Null

\* the positions where the group after ^\s*in\s+ can begin; none when the
\* line does not begin with the marker
AfterMarker(s) ==
    IF MatchesAt(s, <<"i","n">>, SpaceRun(s, 0))
    THEN {SpaceRun(s, 0) + 2 + j : j \in 1..SpaceRun(s, SpaceRun(s, 0) + 2)}
    ELSE {}

\* SOURCE_EXTS.test(file + ":")
SourceExts(f) ==
    \E ext \in {<<".","t","s",":">>, <<".","t","s","x",":">>, <<".","j","s",":">>, <<".","j","s","x",":">>} : Includes(f \o <<":">>, ext)

\* the match of an "in" line: reNamed is tried first, then reAnon
LineMatch(line) ==
    LET named == MatchNamed(line, AfterMarker(line), TRUE)
        plain == MatchPlain(line, AfterMarker(line), TRUE)
    IN  IF ~IsNull(named) THEN named ELSE plain

Keep_anyNumber(line, m) ==
    IF IsNull(m) THEN <<>>
    ELSE IF ~SourceExts(Val(m).file) THEN <<>>
    ELSE <<Frame(trim(line), Val(m).name, Val(m).file, Val(m).line, Val(m).col)>>

\* the rest of the loop body for a line whose match is m: the frames pushed
Keep(line, m) ==
    IF IsNull(m) THEN <<>>
    ELSE IF ~SourceExts(Val(m).file) THEN <<>>
    ELSE IF Val(m).line < 1 \/ Val(m).col < 1 THEN <<>>
    ELSE <<Frame(trim(line), Val(m).name, Val(m).file, Val(m).line, Val(m).col)>>

\* the body of the loop over the lines: the frames it pushes for one line
\* (the match is computed once and bound to m)
KeptFrames(line) ==
    IF AfterMarker(line) = {} THEN <<>>
    ELSE CHOOSE kept \in {Keep(line, m) : m \in {LineMatch(line)}} : TRUE

\* /^@<.+>/.test(l.trim())
IsLabelLine(l) ==
    /\ MatchesAt(trim(l), <<"@","<">>, 0)
    /\ \E k \in 3..(Len(trim(l)) - 1) : trim(l)[k + 1] = ">"

\* the domLabel of the text: group 1 of /^@<(.+)>$/ on the first label line
DomLabel(lines) ==
    LET labels == SelectSeq(lines, IsLabelLine)
    IN  IF Len(labels) = 0 THEN Null
        ELSE LET l == trim(labels[1])
             IN  IF l[Len(l)] = ">" THEN Some(SubSeq(l, 3, Len(l) - 1)) ELSE Null

RECURSIVE AllKeptFrames(_)
AllKeptFrames(lines) ==
    IF Len(lines) = 0 THEN <<>>
    ELSE KeptFrames(Head(lines)) \o AllKeptFrames(Tail(lines))

\* parseReactGrabText(text), for text the lines joined by "\n"
parseReactGrabText(text) ==
    LET lines == [k \in DOMAIN text |-> trimEnd(text[k])]
        frames == AllKeptFrames(lines)
    IN  IF Len(frames) = 0 THEN Null
        ELSE Some([domLabel |-> DomLabel(lines), frames |-> frames])

----------------------------------------------------------------------------
(* Specification of the parsers: parseReactGrabText runs on a text drawn   *)
(* as at most MaxLines lines of a pool, parseFrame on a raw frame drawn    *)
(* from the same lines without their marker. The digit strings drawn have  *)
(* at most two digits, so every parseInt is finite.                        *)

MaxLines == 2

PlainLine(lead, f, line, col) ==
    lead \o <<"i","n"," ">> \o f \o <<":">> \o line \o <<":">> \o col

NamedLine(lead, name, f, line, col) ==
    lead \o <<"i","n"," ">> \o name \o <<" ","(","a","t"," ">> \o f \o <<":">> \o line \o <<":">> \o col \o <<")">>

PoolFiles == {<<"/","a",".","t","s","x">>, <<"/","b",".","j","s">>, <<"/","c",".","c","s","s">>, <<"/","a",".","t","s",":","3","/","c",".","c","s","s">>}

LinePool ==
    {PlainLine(<<" "," ">>, f, <<"1","2">>, <<"5">>) : f \in PoolFiles}
    \cup {NamedLine(<<" "," ">>, <<"F","o","o">>, f, <<"1","2">>, <<"5">>) : f \in PoolFiles}
    \cup {PlainLine(<<" "," ">>, f, <<"1">>, <<"1">>) : f \in {<<"/","a",".","t","s">>, <<"/","a",".","j","s","x">>, <<"/","a",".","j","s","o","n">>, <<"/","a",".","t","s","x",".","m","a","p">>}}
    \cup { PlainLine(<<" "," ">>, <<"/","a",".","t","s","x">>, <<"0">>, <<"5">>),
           NamedLine(<<" "," ">>, <<"F","o","o">>, <<"/","a",".","t","s","x">>, <<"1","2">>, <<"0">>),
           PlainLine(<<" "," ">>, <<"/","a",".","t","s","x">>, <<"0","7">>, <<"5">>),
           NamedLine(<<" "," ">>, <<"A"," ","b">>, <<"/","a",".","t","s","x">>, <<"1","2">>, <<"5">>),
           NamedLine(<<" "," ">>, <<"A"," ","(","a","t"," ","B">>, <<"/","a",".","t","s","x">>, <<"1","2">>, <<"5">>),
           PlainLine(<<>>, <<"/","a",".","t","s","x">>, <<"1","2">>, <<"5">>),
           NamedLine(<<"\t">>, <<"F","o","o">>, <<"/","a",".","t","s","x">>, <<"1","2">>, <<"5">>) \o <<" "," ">>,
           <<" "," ","i","n"," ","F","o","o"," "," ","(","a","t"," "," ","/","a",".","t","s","x",":","1","2",":","5",")">>,
           <<" "," ","i","n"," ","F","o","o"," ","(","a","t"," ","/","a",".","t","s","x",":","1","2",")">>,
           <<" "," ","i","n"," ","F","o","o"," ","(","a","t"," ","/","a",".","t","s","x",":","1","2",":","5">>,
           <<" "," ","i","n"," ","F","o","o"," ","(","a","t"," ","/","a",".","t","s","x",":","1","2",":","5",")"," ","x">>,
           <<" "," ","i","n"," ","/","a",".","t","s","x">>,
           <<" "," ","i","n"," "," ",":","1",":","2">>,
           <<" "," ","i","n">>,
           <<"F","o","o"," ","(","a","t"," ","/","a",".","t","s","x",":","1","2",":","5",")">>,
           <<"<","d","i","v",">">>,
           <<"@","<","F","o","o",">">>,
           <<" "," ","@","<","B","a","r",">"," ","x">>,
           <<>> }

\* the line without its marker, as the harness writes raw frames
Unmarked(l) ==
    IF AfterMarker(l) = {} THEN l ELSE SubSeq(l, Max(AfterMarker(l)) + 1, Len(l))

RawPool == {Unmarked(l) : l \in LinePool}

PoolTexts == UNION {[1..n -> LinePool] : n \in 0..MaxLines}

InitParse ==
    /\ \/ pText \in PoolTexts /\ pRaw = Null
       \/ pText = <<>> /\ pRaw \in {Some(raw) : raw \in RawPool}
    /\ pPayload = Null
    /\ pFrame = Null
    /\ BrowserIdle
    /\ DevIdle
    /\ lastSelection = Null
    /\ CmdIdle
    /\ SrvIdle
    /\ LifeIdle
    /\ NormIdle
    /\ WrapIdle
    /\ ValIdle

ParseText ==
    /\ IsNull(pRaw)
    /\ IsNull(pPayload)
    /\ pPayload' = Some(parseReactGrabText(pText))
    /\ UNCHANGED <<pText, pRaw, pFrame, lastSelection, browserVars, devVars,
                   cmdVars, srvVars, lifeVars, normVars, wrapVars, valVars>>

ParseRaw ==
    /\ ~IsNull(pRaw)
    /\ IsNull(pFrame)
    /\ pFrame' = Some(parseFrame(Val(pRaw)))
    /\ UNCHANGED <<pText, pRaw, pPayload, lastSelection, browserVars, devVars,
                   cmdVars, srvVars, lifeVars, normVars, wrapVars, valVars>>

NextParse ==
    \/ ParseText
    \/ ParseRaw

SpecParse == InitParse /\ [][NextParse]_vars

----------------------------------------------------------------------------
(* Browser bridge: startReactGrabBridge, the React Grab plugin callbacks,  *)
(* the clipboard fallback and the debounced POST.                          *)

\* the first index from `from` on where s holds a character of cs,
\* Len(s) + 1 when there is none
FirstOf(s, cs, from) ==
    IF \E k \in from..Len(s) : s[k] \in cs
    THEN CHOOSE k \in from..Len(s) :
             s[k] \in cs /\ \A j \in from..(k - 1) : s[j] \notin cs
    ELSE Len(s) + 1

\* the last index where s holds a character of cs, 0 when there is none
LastOf(s, cs) ==
    IF \E k \in DOMAIN s : s[k] \in cs
    THEN CHOOSE k \in DOMAIN s :
             s[k] \in cs /\ \A j \in (k + 1)..Len(s) : s[j] \notin cs
    ELSE 0

LowerAlpha == Range(<<"a","b","c","d","e","f","g","h","i","j","k","l","m","n","o","p","q","r","s","t","u","v","w","x","y","z">>)

UpperAlpha == Range(<<"A","B","C","D","E","F","G","H","I","J","K","L","M","N","O","P","Q","R","S","T","U","V","W","X","Y","Z">>)

\* ASCII lowercase of a character
ToLower(c) ==
    IF c \in UpperAlpha
    THEN <<"a","b","c","d","e","f","g","h","i","j","k","l","m","n","o","p","q","r","s","t","u","v","w","x","y","z">>[CHOOSE k \in 1..26 :
                                             <<"A","B","C","D","E","F","G","H","I","J","K","L","M","N","O","P","Q","R","S","T","U","V","W","X","Y","Z">>[k] = c]
    ELSE c

ToLowerCase(s) == [k \in DOMAIN s |-> ToLower(s[k])]

\* the end of the scheme of url: the index of its first ":", when the
\* characters before it are a letter followed by letters, digits, +, - or .
SchemeEnd(url) ==
    LET colon == FirstOf(url, {":"}, 1)
    IN  IF /\ colon >= 2 /\ colon <= Len(url)
           /\ url[1] \in LowerAlpha \cup UpperAlpha
           /\ \A k \in 2..(colon - 1) :
                 \/ url[k] \in LowerAlpha \cup UpperAlpha
                 \/ IsDigit(url[k])
                 \/ url[k] \in {"+", "-", "."}
        THEN colon
        ELSE 0

SpecialSchemes == {<<"h","t","t","p">>, <<"h","t","t","p","s">>, <<"w","s">>, <<"w","s","s">>, <<"f","t","p">>}

\* the host of an authority: the user information up to the last @ and the
\* port from the first : on dropped, an address in brackets kept whole
HostOf(authority) ==
    LET hostport == SubSeq(authority, LastOf(authority, {"@"}) + 1, Len(authority))
    IN  IF hostport # <<>> /\ hostport[1] = "["
        THEN SubSeq(hostport, 1, FirstOf(hostport, {"]"}, 1))
        ELSE SubSeq(hostport, 1, FirstOf(hostport, {":"}, 1) - 1)

\* new URL(url).hostname, null when the constructor throws. A url without
\* a scheme does not parse; the authority of a special scheme begins after
\* the slashes that follow the scheme and its host is lowercased and must
\* not be empty; another scheme has an authority only after "//". (The
\* hosts drawn are names, bracketed addresses and dotted quads in canonical
\* form, which the parser leaves as they are.)
Hostname(url) ==
    IF SchemeEnd(url) = 0 THEN Null
    ELSE LET scheme == ToLowerCase(SubSeq(url, 1, SchemeEnd(url) - 1))
             rest == SubSeq(url, SchemeEnd(url) + 1, Len(url))
         IN  IF scheme \in SpecialSchemes
             THEN LET start == FirstOf(rest, Range(rest) \ {"/", "\\"}, 1)
                      stop == FirstOf(rest, {"/", "\\", "?", "#"}, start)
                      host == HostOf(SubSeq(rest, start, stop - 1))
                  IN  IF host = <<>> THEN Null ELSE Some(ToLowerCase(host))
             ELSE IF MatchesAt(rest, <<"/","/">>, 0)
             THEN Some(HostOf(SubSeq(rest, 3, FirstOf(rest, {"/", "?", "#"}, 3) - 1)))
             ELSE Some(<<>>)

isLocalhost_substring(url) ==
    \/ Includes(url, <<"1","2","7",".","0",".","0",".","1">>)
    \/ Includes(url, <<"l","o","c","a","l","h","o","s","t">>)
    \/ Includes(url, <<"[",":",":","1","]">>)

\* isLocalhost(url)
isLocalhost(url) ==
    /\ ~IsNull(Hostname(url))
    /\ Val(Hostname(url)) \in {<<"1","2","7",".","0",".","0",".","1">>, <<"l","o","c","a","l","h","o","s","t">>, <<"[",":",":","1","]">>}

\* tryPluginApi: the plugin is registered when rg.registerPlugin is a
\* function that returns
RegistersPlugin(rg) == ~IsNull(rg) /\ Val(rg).registerPlugin = "returns"

\* tryPluginApi: rg.onSelection is tried when registerPlugin is missing or
\* threw, and the callback is registered when it returns
RegistersCallback(rg) ==
    /\ ~IsNull(rg)
    /\ Val(rg).registerPlugin # "returns"
    /\ Val(rg).onSelection = "returns"

\* tryPluginApi(send, logLevel): its result
tryPluginApi(rg) == RegistersPlugin(rg) \/ RegistersCallback(rg)

\* if (data.text): the text is not the empty string
IsTruthyText(text) == ~IsNull(text) /\ Val(text) \notin {<<>>, << <<>> >>}

\* x ?? y: x is undefined or null
IsNullish(x) == x.t \in {"undefined", "null"}

\* `${x}` for a number x that is a multiple of one half
NumberString(x) ==
    Digits(x.v[1] \div 2) \o (IF x.v[1] % 2 = 1 THEN <<".","5">> ELSE <<>>)

\* JSON.stringify(payload), held as the value JSON.parse reads from it, for
\* a payload of parseReactGrabText or null
Serialized(payload) ==
    IF IsNull(payload) THEN Null ELSE Some(JsonOf(Val(payload)))

\* the filter of handlePluginData over the frames of the event
IsStructuredFrame(f) ==
    /\ TypeOf(f.file) = "string"
    /\ TypeOf(f.line) = "number"
    /\ TypeOf(f.col) = "number"
    /\ f.line.v[1] > 0
    /\ f.col.v[1] > 0

\* ... and its map (the names drawn are strings or missing)
StructuredFrame(f) ==
    FrameDoc(IF ~IsNullish(f.raw) THEN f.raw
             ELSE JString((IF IsNullish(f.name) THEN <<>> ELSE f.name.v) \o <<" ">>
                          \o f.file.v \o <<":">> \o NumberString(f.line)
                          \o <<":">> \o NumberString(f.col)),
             IF IsNullish(f.name) THEN JNull ELSE f.name,
             f.file, f.line, f.col)

StructuredFrames(data) ==
    IF IsNull(data.frames) THEN <<>>
    ELSE LET kept == SelectSeq(Val(data.frames), IsStructuredFrame)
         IN  [k \in DOMAIN kept |-> StructuredFrame(kept[k])]

\* handlePluginData(data, send, logLevel): the payload it sends, or null
handlePluginData(data) ==
    IF Len(StructuredFrames(data)) > 0
    THEN Some(Doc(IF IsNullish(data.componentName) THEN JNull ELSE data.componentName,
                  JArray(StructuredFrames(data))))
    ELSE IF IsTruthyText(data.text) THEN Serialized(parseReactGrabText(Val(data.text)))
    ELSE Null

\* plugin.onCopy(data): the payload it sends, or null
onCopy(data) ==
    IF IsTruthyText(data.text) THEN Serialized(parseReactGrabText(Val(data.text)))
    ELSE Null

\* /^\s*in\s+/m.test(text): a line begins with blanks, "in" and a blank,
\* the line break after a line that ends with "in" being a blank too
HasInLine(text) ==
    \E k \in DOMAIN text :
        /\ MatchesAt(text[k], <<"i","n">>, SpaceRun(text[k], 0))
        /\ \/ SpaceRun(text[k], SpaceRun(text[k], 0) + 2) >= 1
           \/ Len(text[k]) = SpaceRun(text[k], 0) + 2 /\ k < Len(text)

\* the quick sniff of the copy handler: text.includes("\n") and an "in" line
LooksLikeReactGrab(text) == Len(text) >= 2 /\ HasInLine(text)

send_leadingEdge(payload) ==
    /\ timer' = IF IsNull(timer) THEN Some(payload) ELSE timer
    /\ sends' = Append(sends, payload)

\* send(payload): the debounced call clears the pending timer and sets one
send(payload) ==
    /\ timer' = Some(payload)
    /\ sends' = Append(sends, payload)

\* a handler that sends the payload it was given, if any
sendIf(payload) ==
    IF IsNull(payload) THEN UNCHANGED <<timer, sends>> ELSE send(Val(payload))

\* startReactGrabBridge({endpointUrl, allowNonLocalhost})
startReactGrabBridge ==
    /\ bridge = "not started"
    /\ IF ~allowNonLocalhost /\ ~isLocalhost(endpointUrl)
       THEN /\ bridge' = "refused"
            /\ UNCHANGED <<plugin, onSelectionCb, copyListener>>
       ELSE /\ bridge' = "started"
            /\ plugin' = RegistersPlugin(reactGrab)
            /\ onSelectionCb' = RegistersCallback(reactGrab)
            /\ copyListener' = TRUE
    /\ UNCHANGED <<endpointUrl, allowNonLocalhost, reactGrab, cleanedUp, handlers,
                   clipboard, lastHash, timer, events, sends, posts>>
    /\ UNCHANGED <<lastSelection, parseVars, devVars, normVars, cmdVars, wrapVars,
                   valVars, srvVars, lifeVars>>

\* the function startReactGrabBridge returned: removeClipboard() for a
\* started bridge, nothing for a refused one
cleanup ==
    /\ bridge # "not started"
    /\ ~cleanedUp
    /\ cleanedUp' = TRUE
    /\ copyListener' = FALSE
    /\ UNCHANGED <<endpointUrl, allowNonLocalhost, reactGrab, bridge, plugin,
                   onSelectionCb, handlers, clipboard, lastHash, timer, events,
                   sends, posts>>
    /\ UNCHANGED <<lastSelection, parseVars, devVars, normVars, cmdVars, wrapVars,
                   valVars, srvVars, lifeVars>>

\* a copy event on document: the text is on the clipboard and the handler,
\* if installed, starts with its delay
OnCopyEvent(text) ==
    /\ clipboard' = text
    /\ handlers' = IF copyListener THEN Append(handlers, "delay") ELSE handlers
    /\ events' = Append(events, [via |-> "copy", text |-> Some(text)])
    /\ UNCHANGED <<endpointUrl, allowNonLocalhost, reactGrab, bridge, cleanedUp,
                   plugin, onSelectionCb, copyListener, lastHash, timer, sends,
                   posts>>
    /\ UNCHANGED <<lastSelection, parseVars, devVars, normVars, cmdVars, wrapVars,
                   valVars, srvVars, lifeVars>>

\* the 50 ms delay of the copy handler i is over: it calls readText
OnDelayOver(i) ==
    /\ i \in DOMAIN handlers
    /\ handlers[i] = "delay"
    /\ handlers' = [handlers EXCEPT ![i] = "reading"]
    /\ UNCHANGED <<endpointUrl, allowNonLocalhost, reactGrab, bridge, cleanedUp,
                   plugin, onSelectionCb, copyListener, clipboard, lastHash,
                   timer, events, sends, posts>>
    /\ UNCHANGED <<lastSelection, parseVars, devVars, normVars, cmdVars, wrapVars,
                   valVars, srvVars, lifeVars>>

\* the rest of the copy handler for the text read: the payload it sends
FromClipboard(text, hash) ==
    IF ~LooksLikeReactGrab(text) THEN Null
    ELSE CHOOSE sent \in
             {IF payload = hash THEN Null ELSE payload :
                  payload \in {Serialized(parseReactGrabText(text))}} : TRUE

\* navigator.clipboard.readText() of the copy handler i settles: rejected,
\* or fulfilled with the text on the clipboard
OnReadText(i, fulfilled) ==
    /\ i \in DOMAIN handlers
    /\ handlers[i] = "reading"
    /\ handlers' = [k \in 1..(Len(handlers) - 1) |->
                        IF k < i THEN handlers[k] ELSE handlers[k + 1]]
    /\ IF fulfilled
       THEN \E payload \in {FromClipboard(clipboard, lastHash)} :
                /\ lastHash' = IF IsNull(payload) THEN lastHash ELSE payload
                /\ sendIf(payload)
       ELSE UNCHANGED <<lastHash, timer, sends>>
    /\ UNCHANGED <<endpointUrl, allowNonLocalhost, reactGrab, bridge, cleanedUp,
                   plugin, onSelectionCb, copyListener, clipboard, events, posts>>
    /\ UNCHANGED <<lastSelection, parseVars, devVars, normVars, cmdVars, wrapVars,
                   valVars, srvVars, lifeVars>>

\* React Grab calls plugin.onSelection(data)
OnPluginSelection(data) ==
    /\ plugin
    /\ \E payload \in {handlePluginData(data)} : sendIf(payload)
    /\ events' = Append(events, [via |-> "plugin.onSelection", text |-> data.text])
    /\ UNCHANGED <<endpointUrl, allowNonLocalhost, reactGrab, bridge, cleanedUp,
                   plugin, onSelectionCb, copyListener, handlers, clipboard,
                   lastHash, posts>>
    /\ UNCHANGED <<lastSelection, parseVars, devVars, normVars, cmdVars, wrapVars,
                   valVars, srvVars, lifeVars>>

\* React Grab calls plugin.onCopy(data)
OnPluginCopy(data) ==
    /\ plugin
    /\ \E payload \in {onCopy(data)} : sendIf(payload)
    /\ events' = Append(events, [via |-> "plugin.onCopy", text |-> data.text])
    /\ UNCHANGED <<endpointUrl, allowNonLocalhost, reactGrab, bridge, cleanedUp,
                   plugin, onSelectionCb, copyListener, handlers, clipboard,
                   lastHash, posts>>
    /\ UNCHANGED <<lastSelection, parseVars, devVars, normVars, cmdVars, wrapVars,
                   valVars, srvVars, lifeVars>>

\* React Grab calls the callback passed to rg.onSelection
OnSelection(data) ==
    /\ onSelectionCb
    /\ \E payload \in {handlePluginData(data)} : sendIf(payload)
    /\ events' = Append(events, [via |-> "onSelection", text |-> data.text])
    /\ UNCHANGED <<endpointUrl, allowNonLocalhost, reactGrab, bridge, cleanedUp,
                   plugin, onSelectionCb, copyListener, handlers, clipboard,
                   lastHash, posts>>
    /\ UNCHANGED <<lastSelection, parseVars, devVars, normVars, cmdVars, wrapVars,
                   valVars, srvVars, lifeVars>>

\* the timer of debounce fires: postPayload(endpointUrl, payload) issues
\* the fetch
OnTimer ==
    /\ ~IsNull(timer)
    /\ posts' = Append(posts, [url |-> endpointUrl, payload |-> Val(timer)])
    /\ timer' = Null
    /\ UNCHANGED <<endpointUrl, allowNonLocalhost, reactGrab, bridge, cleanedUp,
                   plugin, onSelectionCb, copyListener, handlers, clipboard,
                   lastHash, events, sends>>
    /\ UNCHANGED <<lastSelection, parseVars, devVars, normVars, cmdVars, wrapVars,
                   valVars, srvVars, lifeVars>>

----------------------------------------------------------------------------
(* Specification of the browser bridge: one call of startReactGrabBridge   *)
(* with an endpoint of a pool, in a page where React Grab offers either,   *)
(* both or none of its two registration functions, followed by at most     *)
(* MaxEvents copy events and React Grab callbacks and by the cleanup.      *)

MaxEvents == 2

DEFAULT_ENDPOINT == <<"h","t","t","p",":","/","/","1","2","7",".","0",".","0",".","1",":","3","3","4","4","/","s","e","l","e","c","t","i","o","n">>

Endpoints ==
    { DEFAULT_ENDPOINT,
      <<"h","t","t","p",":","/","/","l","o","c","a","l","h","o","s","t",":","3","3","4","4","/","s","e","l","e","c","t","i","o","n">>,
      <<"h","t","t","p",":","/","/","[",":",":","1","]",":","3","3","4","4","/","s","e","l","e","c","t","i","o","n">>,
      <<"H","T","T","P",":","/","/","L","O","C","A","L","H","O","S","T","/","s","e","l","e","c","t","i","o","n">>,
      <<"h","t","t","p",":","/","/","e","x","a","m","p","l","e",".","c","o","m","/","s","e","l","e","c","t","i","o","n">>,
      <<"h","t","t","p",":","/","/","l","o","c","a","l","h","o","s","t",".","e","x","a","m","p","l","e",".","c","o","m","/","s","e","l","e","c","t","i","o","n">>,
      <<"h","t","t","p",":","/","/","l","o","c","a","l","h","o","s","t","@","e","x","a","m","p","l","e",".","c","o","m","/","s","e","l","e","c","t","i","o","n">>,
      <<"h","t","t","p",":","/","/","e","x","a","m","p","l","e",".","c","o","m","/","l","o","c","a","l","h","o","s","t">>,
      <<"l","o","c","a","l","h","o","s","t",":","3","3","4","4","/","s","e","l","e","c","t","i","o","n">>,
      <<"1","2","7",".","0",".","0",".","1",":","3","3","4","4","/","s","e","l","e","c","t","i","o","n">> }

ReactGrabs ==
    { Null,
      Some([registerPlugin |-> "returns", onSelection |-> "returns"]),
      Some([registerPlugin |-> "throws", onSelection |-> "returns"]),
      Some([registerPlugin |-> "absent", onSelection |-> "throws"]) }

StackText == <<<<"@","<","F","o","o",">">>, <<" "," ","i","n"," ","F","o","o"," ","(","a","t"," ","/","a",".","t","s","x",":","3",":","2",")">>>>

OtherStackText == <<<<"<","d","i","v",">">>, <<" "," ","i","n"," ","/","b",".","j","s",":","1",":","1">>>>

CopyTexts == {StackText, OtherStackText, <<<<"i","n"," ","a"," ","h","u","r","r","y">>>>}

\* a frame of a plugin event: any of its properties may be missing
EventFrame(raw, name, f, line, col) ==
    [raw |-> raw, name |-> name, file |-> f, line |-> line, col |-> col]

\* the events React Grab delivers: structured frames with the text of
\* another selection, a frame with line 0 and a text, a text that is no
\* stack, and a frame with line 1.5
EventData ==
    { [text |-> Some(OtherStackText), componentName |-> JString(<<"F","o","o">>),
       frames |-> Some(<<EventFrame(JUndefined, JString(<<"F","o","o">>), JString(<<"/","a",".","t","s","x">>),
                                    JNumber(6), JNumber(4))>>)],
      [text |-> Some(StackText), componentName |-> JUndefined,
       frames |-> Some(<<EventFrame(JUndefined, JUndefined, JString(<<"/","a",".","t","s","x">>),
                                    JNumber(0), JNumber(4))>>)],
      [text |-> Some(<<<<"i","n"," ","a"," ","h","u","r","r","y">>>>), componentName |-> JUndefined, frames |-> Null],
      [text |-> Null, componentName |-> JUndefined,
       frames |-> Some(<<EventFrame(JUndefined, JUndefined, JString(<<"/","a",".","t","s","x">>),
                                    JNumber(3), JNumber(4))>>)] }

InitBrowser ==
    /\ endpointUrl \in Endpoints
    /\ allowNonLocalhost \in BOOLEAN
    /\ reactGrab \in ReactGrabs
    /\ bridge = "not started"
    /\ cleanedUp = FALSE
    /\ plugin = FALSE
    /\ onSelectionCb = FALSE
    /\ copyListener = FALSE
    /\ handlers = <<>>
    /\ clipboard = <<>>
    /\ lastHash = Null
    /\ timer = Null
    /\ events = <<>>
    /\ sends = <<>>
    /\ posts = <<>>
    /\ ParseIdle
    /\ DevIdle
    /\ lastSelection = Null
    /\ CmdIdle
    /\ SrvIdle
    /\ LifeIdle
    /\ NormIdle
    /\ WrapIdle
    /\ ValIdle

NextBrowser ==
    \/ startReactGrabBridge
    \/ cleanup
    \/ Len(events) < MaxEvents /\ \E text \in CopyTexts : OnCopyEvent(text)
    \/ \E i \in DOMAIN handlers : OnDelayOver(i)
    \/ \E i \in DOMAIN handlers, fulfilled \in BOOLEAN : OnReadText(i, fulfilled)
    \/ Len(events) < MaxEvents /\ \E data \in EventData : OnPluginSelection(data)
    \/ Len(events) < MaxEvents /\ \E data \in EventData : OnPluginCopy(data)
    \/ Len(events) < MaxEvents /\ \E data \in EventData : OnSelection(data)
    \/ OnTimer

SpecBrowser == InitBrowser /\ [][NextBrowser]_vars

\* ... with the timer of debounce firing once it is set and not cleared
\* the bridge posting to its default endpoint
InitDebounce ==
    /\ InitBrowser
    /\ endpointUrl = DEFAULT_ENDPOINT
    /\ ~allowNonLocalhost

SpecDebounce == InitDebounce /\ [][NextBrowser]_vars /\ WF_vars(OnTimer)

----------------------------------------------------------------------------
(* Dev-bridge integrations: the effect of ReactGrabDevBridge (App Router)  *)
(* and of useReactGrabBridge (Pages Router), which are the same code.      *)
(* A run of the effect is held with the state of its dynamic import, the   *)
(* value of its local cleanup, whether React has run the function the      *)
(* effect returned, and whether the bridge it started has its listener.    *)

\* the effect runs (mount): outside development it returns at once,
\* otherwise it starts the import and returns () => cleanup?.()
Effect ==
    /\ \A i \in DOMAIN effects : effects[i].unmounted
    /\ effects' = Append(effects,
                         [import |-> IF nodeEnv = "development" THEN "pending" ELSE "none",
                          cleanup |-> "undefined",
                          unmounted |-> FALSE,
                          listening |-> FALSE])
    /\ UNCHANGED <<nodeEnv, lastSelection, parseVars, browserVars, normVars,
                   cmdVars, wrapVars, valVars, srvVars, lifeVars>>

\* the import of run i resolves: cleanup = startReactGrabBridge(), which
\* with the default endpoint installs the listeners
OnImported(i) ==
    /\ i \in DOMAIN effects
    /\ effects[i].import = "pending"
    /\ effects' = [effects EXCEPT ![i] =
                       [@ EXCEPT !.import = "resolved", !.cleanup = "set",
                                 !.listening = isLocalhost(DEFAULT_ENDPOINT)]]
    /\ UNCHANGED <<nodeEnv, lastSelection, parseVars, browserVars, normVars,
                   cmdVars, wrapVars, valVars, srvVars, lifeVars>>

\* React runs the function the effect i returned (unmount): cleanup?.()
EffectCleanup(i) ==
    /\ i \in DOMAIN effects
    /\ ~effects[i].unmounted
    /\ effects' = [effects EXCEPT ![i] =
                       [@ EXCEPT !.unmounted = TRUE,
                                 !.listening = IF effects[i].cleanup = "set"
                                               THEN FALSE ELSE @]]
    /\ UNCHANGED <<nodeEnv, lastSelection, parseVars, browserVars, normVars,
                   cmdVars, wrapVars, valVars, srvVars, lifeVars>>

----------------------------------------------------------------------------
(* Specification of the dev bridge: the component mounts, unmounts and     *)
(* remounts up to MaxMounts times while the imports resolve.               *)

MaxMounts == 4

InitDev ==
    /\ nodeEnv \in {"development", "production"}
    /\ effects = <<>>
    /\ ParseIdle
    /\ BrowserIdle
    /\ lastSelection = Null
    /\ CmdIdle
    /\ SrvIdle
    /\ LifeIdle
    /\ NormIdle
    /\ WrapIdle
    /\ ValIdle

NextDev ==
    \/ Len(effects) < MaxMounts /\ Effect
    \/ \E i \in DOMAIN effects : OnImported(i)
    \/ \E i \in DOMAIN effects : EffectCleanup(i)

SpecDev == InitDev /\ [][NextDev]_vars

----------------------------------------------------------------------------
(* Properties of the classifier, stated on the locals of the command that  *)
(* ran last.                                                               *)

\* a command has classified a stored selection
Classified == cmd # "none" /\ ~IsNull(lastSelection)

\* ... and went on to compute used-in
UsedInComputed == Classified /\ cmd # "openRenderedBy" /\ ~IsNull(rendered)

Min(S) == CHOOSE m \in S : \A n \in S : m <= n

\* s contains pat as a contiguous run of characters
Contains(s, pat) ==
    \E i \in 0..(Len(s) - Len(pat)) : SubSeq(s, i + 1, i + Len(pat)) = pat

\* positions (from 1) of the frames findRenderedBy may consider
CandidatePositions(nf) ==
    {k \in 1..Len(nf) : /\ Len(nf[k].normalizedFile) >= 4
                        /\ SubSeq(nf[k].normalizedFile, 1, 4) = <<"s","r","c","/">>
                        /\ nf[k].line > 0}

NamedCandidatePositions(nf) == {k \in CandidatePositions(nf) : nf[k].name # Null}

\* positions after the rendered-by frame
After == (Val(rendered).index + 2)..Len(nFrames)

OtherFileAfter ==
    {j \in After : nFrames[j].normalizedFile # Val(rendered).frame.normalizedFile}

MeaningfulAfter == {j \in OtherFileAfter : ~isWrapper(nFrames[j])}

\* C1: for the scenario-A frame list, rendered-by is the tab-bar.tsx:68 frame
\* at index 0 and used-in is the RightPanel.tsx:28 frame.
C1_ScenarioA ==
    (Classified /\ Val(lastSelection) = exampleA) =>
        /\ ~IsNull(rendered)
        /\ Val(rendered).index = 0
        /\ Val(rendered).frame.normalizedFile = <<"s","r","c","/","c","o","m","p","o","n","e","n","t","s","/","s","p","r","i","n","g","-","u","i","/","t","a","b","-","b","a","r",".","t","s","x">>
        /\ Val(rendered).frame.line = 68
        /\ IsNull(Val(rendered).frame.name)
        /\ cmd # "openRenderedBy" =>
              /\ ~IsNull(usedIn)
              /\ Val(usedIn).normalizedFile =
                    <<"s","r","c","/","c","o","m","p","o","n","e","n","t","s","/","d","e","s","i","g","n","e","r","/","l","a","y","o","u","t","/","p","a","n","e","l","s","/","r","i","g","h","t","p","a","n","e","l","/","R","i","g","h","t","P","a","n","e","l",".","t","s","x">>
              /\ Val(usedIn).line = 28
              /\ Val(usedIn).name = Some(<<"R","i","g","h","t","P","a","n","e","l">>)

C3_UsedInSkipsWrappers ==
    (UsedInComputed /\ MeaningfulAfter # {}) =>
        usedIn = Some(nFrames[Min(MeaningfulAfter)])

C3_Witness ==
    /\ UsedInComputed
    /\ MeaningfulAfter # {}
    /\ Min(OtherFileAfter) < Min(MeaningfulAfter)
    /\ usedIn = Some(nFrames[Min(MeaningfulAfter)])

\* C4: when no frame after rendered-by is a non-wrapper in another file but
\* some frame after it is in another file, findUsedIn returns the
\* lowest-index frame in another file, a wrapper.
C4_UsedInRelaxed ==
    (UsedInComputed /\ MeaningfulAfter = {} /\ OtherFileAfter # {}) =>
        /\ usedIn = Some(nFrames[Min(OtherFileAfter)])
        /\ isWrapper(Val(usedIn))

\* the wrapper is reached past a frame of rendered-by's own file
C4_Witness ==
    /\ UsedInComputed
    /\ MeaningfulAfter = {}
    /\ OtherFileAfter # {}
    /\ Min(OtherFileAfter) > Val(rendered).index + 2
    /\ usedIn = Some(nFrames[Min(OtherFileAfter)])

\* C5 as stated: when every frame after rendered-by is a wrapper or in the
\* same file as rendered-by, findUsedIn returns the rendered-by frame.
C5_Original ==
    (UsedInComputed /\ MeaningfulAfter = {}) => usedIn = Some(Val(rendered).frame)

\* C5 amended: when every frame after rendered-by is in the same file as
\* rendered-by, findUsedIn returns the rendered-by frame; when the only
\* frames in another file are wrappers it returns the first of them. In both
\* cases it returns a frame of the list.
C5_UsedInFallback ==
    (UsedInComputed /\ MeaningfulAfter = {}) =>
        /\ ~IsNull(usedIn)
        /\ OtherFileAfter = {} => Val(usedIn) = Val(rendered).frame
        /\ OtherFileAfter # {} => /\ Val(usedIn) = nFrames[Min(OtherFileAfter)]
                                  /\ Val(usedIn) # Val(rendered).frame

\* rendered-by is followed only by frames of its own normalized file, one of
\* them captured under another raw path
C5_Witness ==
    /\ UsedInComputed
    /\ After # {}
    /\ OtherFileAfter = {}
    /\ \E j \in After : nFrames[j].file # Val(rendered).frame.file
    /\ Val(usedIn) = Val(rendered).frame

\* C6: whenever findRenderedBy returns a frame, findUsedIn returns a frame of
\* the list: rendered-by itself or a later frame in another file.
C6_UsedInDefined ==
    (Classified /\ cmd # "openRenderedBy" /\ ~IsNull(rendered)) =>
        /\ usedInCalls = 1
        /\ ~IsNull(usedIn)
        /\ \/ Val(usedIn) = Val(rendered).frame
           \/ \E j \in OtherFileAfter : Val(usedIn) = nFrames[j]

C6_Witness ==
    /\ UsedInComputed
    /\ Val(rendered).index > 0
    /\ \E j \in OtherFileAfter : Val(usedIn) = nFrames[j]
    /\ \E j \in 1..Val(rendered).index :
           nFrames[j].normalizedFile # Val(rendered).frame.normalizedFile

\* C7: for the scenario-B frame list, rendered-by is the CanvasBar frame and
\* used-in is the LayoutContent.tsx:37 frame, not the provider frame.
C7_ScenarioB ==
    (Classified /\ Val(lastSelection) = exampleB) =>
        /\ ~IsNull(rendered)
        /\ Val(rendered).index = 0
        /\ Val(rendered).frame.name = Some(<<"C","a","n","v","a","s","B","a","r">>)
        /\ Val(rendered).frame.normalizedFile =
              <<"s","r","c","/","c","o","m","p","o","n","e","n","t","s","/","d","e","s","i","g","n","e","r","/","l","a","y","o","u","t","/","C","a","n","v","a","s","B","a","r",".","t","s","x">>
        /\ Val(rendered).frame.line = 21
        /\ cmd # "openRenderedBy" =>
              /\ ~IsNull(usedIn)
              /\ Val(usedIn).normalizedFile =
                    <<"s","r","c","/","c","o","m","p","o","n","e","n","t","s","/","d","e","s","i","g","n","e","r","/","l","a","y","o","u","t","/","L","a","y","o","u","t","C","o","n","t","e","n","t",".","t","s","x">>
              /\ Val(usedIn).line = 37
              /\ Val(usedIn).name # Some(<<"C","a","n","v","a","s","S","e","l","e","c","t","i","o","n","P","r","o","v","i","d","e","r">>)

C7_Witness ==
    /\ UsedInComputed
    /\ Val(lastSelection) = exampleB
    /\ Val(usedIn).line = 37
    /\ isWrapper(nFrames[3])

\* C8: when the frame list is empty or has no frame in src/ with line > 0,
\* findRenderedBy returns null and the caller takes used-in as null without
\* invoking findUsedIn (and opens nothing).
C8_NoCandidate ==
    (Classified /\ CandidatePositions(nFrames) = {}) =>
        /\ rendered = Null
        /\ usedIn = Null
        /\ usedInCalls = 0
        /\ opened = Null \/ cmd = "openFrame"

\* a list whose only src/ frame has line 0
C8_Witness ==
    /\ Classified
    /\ cmd \in {"openUsedIn", "showLastSelection", "openFrame"}
    /\ Len(nFrames) > 0
    /\ \E k \in 1..Len(nFrames) :
           Contains(nFrames[k].normalizedFile, <<"s","r","c","/">>) /\ nFrames[k].line = 0
    /\ rendered = Null
    /\ usedIn = Null

\* the same for the empty frame list
C8_WitnessEmpty ==
    /\ Classified
    /\ Len(Val(lastSelection).frames) = 0
    /\ rendered = Null

\* C9: isWrapper(frame) is true exactly when normalizedFile contains
\* "/context/" or "/providers/", or name is non-null and contains "Provider",
\* "Context" or "Boundary" (case-sensitive); a null name contributes nothing.
C9_IsWrapper ==
    ~IsNull(wResult) =>
        LET f == Val(wFrame).normalizedFile
            n == Val(wFrame).name
        IN  Val(wResult) <=>
               \/ Contains(f, <<"/","c","o","n","t","e","x","t","/">>)
               \/ Contains(f, <<"/","p","r","o","v","i","d","e","r","s","/">>)
               \/ /\ n # Null
                  /\ \/ Contains(Val(n), <<"P","r","o","v","i","d","e","r">>)
                     \/ Contains(Val(n), <<"C","o","n","t","e","x","t">>)
                     \/ Contains(Val(n), <<"B","o","u","n","d","a","r","y">>)

\* a frame that is a wrapper by its name only, next to lower-case look-alikes
C9_Witness ==
    /\ wResult = Some(TRUE)
    /\ Val(wFrame).name = Some(<<"p","r","o","v","i","d","e","r","B","o","u","n","d","a","r","y">>)
    /\ Val(wFrame).normalizedFile = <<"s","r","c","/","c","o","n","t","e","x","t">>

\* a null name and a path with the directory names but not as segments
C9_WitnessNot ==
    /\ wResult = Some(FALSE)
    /\ Val(wFrame).name = Null
    /\ Val(wFrame).normalizedFile = <<"c","o","n","t","e","x","t","/","p","r","o","v","i","d","e","r","s">>

----------------------------------------------------------------------------
\* C10: normalizePath is idempotent: normalizing an already normalized path
\* returns it unchanged, for every input path, also with several "/src/".
C10_Idempotent ==
    ~IsNull(renormalized) => Val(renormalized) = Val(normalized)

----------------------------------------------------------------------------
(* Properties of normalizePath, stated on the result of Normalize *)

\* 0-based positions at which pat occurs in s
Occurrences(s, pat) ==
    {i \in 0..(Len(s) - Len(pat)) : SubSeq(s, i + 1, i + Len(pat)) = pat}

\* number of "/" characters s begins with
LeadingSlashes(s) == Min({i \in 0..Len(s) : i = Len(s) \/ s[i + 1] # "/"})

\* s without its leading "/" characters and with every "\" turned into "/"
SeparatorsNormalized(s) ==
    [i \in 1..(Len(s) - LeadingSlashes(s)) |->
        IF s[LeadingSlashes(s) + i] = "\\" THEN "/" ELSE s[LeadingSlashes(s) + i]]

\* 0-based positions where a directory named exactly "src" starts: at the
\* start of the path or after a separator, and followed by a separator
SrcDirectories(s) ==
    {c \in 0..(Len(s) - 4) :
        /\ SubSeq(s, c + 1, c + 3) = <<"s","r","c">>
        /\ s[c + 4] \in {"/", "\\"}
        /\ c = 0 \/ s[c] \in {"/", "\\"}}

\* C11: the result of normalizePath contains no backslash and does not begin
\* with "/", for every input.
C11_NoBackslashNoLeadingSlash ==
    ~IsNull(normalized) =>
        /\ \A i \in 1..Len(Val(normalized)) : Val(normalized)[i] # "\\"
        /\ Len(Val(normalized)) = 0 \/ Val(normalized)[1] # "/"

\* C12: for every path containing "/src/", the result starts with "src/",
\* has no leading slash and contains no backslash.
C12_StartsWithSrc ==
    (~IsNull(normalized) /\ Occurrences(file, <<"/","s","r","c","/">>) # {}) =>
        /\ Len(Val(normalized)) >= 4
        /\ SubSeq(Val(normalized), 1, 4) = <<"s","r","c","/">>
        /\ \A i \in 1..Len(Val(normalized)) : Val(normalized)[i] # "\\"

\* a path with a prefix before "/src/" and a backslash after it
C12_Witness ==
    /\ ~IsNull(normalized)
    /\ Occurrences(file, <<"/","s","r","c","/">>) # {}
    /\ Min(Occurrences(file, <<"/","s","r","c","/">>)) > 0
    /\ \E i \in 1..Len(file) : file[i] = "\\"

\* C13: normalizePath cuts at the first "/src/" if there is one, even when
\* "src\" occurs earlier; otherwise at the first "src\"; otherwise nowhere;
\* then removes all leading "/" and replaces every "\" by "/".
C13_BranchPriority ==
    ~IsNull(normalized) =>
        LET slash == Occurrences(file, <<"/","s","r","c","/">>)
            back == Occurrences(file, <<"s","r","c","\\">>)
            kept == IF slash # {} THEN SubSeq(file, Min(slash) + 2, Len(file))
                    ELSE IF back # {} THEN SubSeq(file, Min(back) + 1, Len(file))
                    ELSE file
        IN  Val(normalized) = SeparatorsNormalized(kept)

\* "src\" occurs before the first "/src/"
C13_Witness ==
    /\ ~IsNull(normalized)
    /\ Occurrences(file, <<"/","s","r","c","/">>) # {}
    /\ Occurrences(file, <<"s","r","c","\\">>) # {}
    /\ Min(Occurrences(file, <<"s","r","c","\\">>)) < Min(Occurrences(file, <<"/","s","r","c","/">>))

\* C14: whenever normalizePath truncates a path, the kept string starts at a
\* directory named exactly "src" (preceded by a separator or the start of
\* the path); a path without such a directory is only separator-normalized.
C14_DirectoryBoundary ==
    ~IsNull(normalized) =>
        /\ Val(normalized) # SeparatorsNormalized(file) =>
              \E c \in SrcDirectories(file) :
                  Val(normalized) = SeparatorsNormalized(SubSeq(file, c + 1, Len(file)))
        /\ SrcDirectories(file) = {} => Val(normalized) = SeparatorsNormalized(file)

----------------------------------------------------------------------------
(* Properties of validateSelection, stated on the result of Validate.      *)
(* A check is <<0, c>> for the document-level check c, or <<i + 1, c>> for *)
(* the check c of frames[i].                                               *)

IsPlainObject(x) == x.t = "object"

IsStringOrNull(x) == x.t \in {"string", "null"}

IsPositiveInteger(x) == x.t = "number" /\ \E n \in 1..4 : x.v[1] = 2 * n

FrameChecks == <<"object", "raw", "name", "file", "line", "col">>

DocChecks == <<"body", "domLabel", "array", "entries">>

\* the checks that the value d fails, each taken on its own
FailedChecks(d) ==
    {<<0, c>> : c \in
        {c \in Range(DocChecks) :
            \/ c = "body" /\ ~IsPlainObject(d)
            \/ /\ IsPlainObject(d)
               /\ \/ c = "domLabel" /\ ~IsStringOrNull(Props(d).domLabel)
                  \/ c = "array" /\ Props(d).frames.t # "array"
                  \/ c = "entries" /\ Props(d).frames.t = "array"
                                   /\ Props(d).frames.v = <<>>}}
    \cup
    (IF IsPlainObject(d) /\ Props(d).frames.t = "array"
     THEN {k \in (1..Len(Props(d).frames.v)) \X Range(FrameChecks) :
              LET f == Props(d).frames.v[k[1]]
              IN  \/ k[2] = "object" /\ ~IsPlainObject(f)
                  \/ /\ IsPlainObject(f)
                     /\ \/ k[2] = "raw" /\ Props(f).raw.t # "string"
                        \/ k[2] = "name" /\ ~IsStringOrNull(Props(f).name)
                        \/ k[2] = "file" /\ Props(f).file.t # "string"
                        \/ k[2] = "line" /\ ~IsPositiveInteger(Props(f).line)
                        \/ k[2] = "col" /\ ~IsPositiveInteger(Props(f).col)}
     ELSE {})

PositionIn(seq, c) == CHOOSE p \in DOMAIN seq : seq[p] = c

\* the fixed order of the checks
CheckRank(k) ==
    IF k[1] = 0 THEN PositionIn(DocChecks, k[2])
    ELSE 10 * k[1] + PositionIn(FrameChecks, k[2])

FirstFailedCheck(d) ==
    CHOOSE k \in FailedChecks(d) : \A o \in FailedChecks(d) : CheckRank(k) <= CheckRank(o)

IndexText(i) == <<<<"0">>, <<"1">>, <<"2">>, <<"3">>, <<"4">>>>[i + 1]

\* the documented message of each check
CheckMessage(k) ==
    IF k = <<0, "body">> THEN <<"B","o","d","y"," ","m","u","s","t"," ","b","e"," ","a"," ","J","S","O","N"," ","o","b","j","e","c","t">>
    ELSE IF k = <<0, "domLabel">> THEN <<"d","o","m","L","a","b","e","l"," ","m","u","s","t"," ","b","e"," ","a"," ","s","t","r","i","n","g"," ","o","r"," ","n","u","l","l">>
    ELSE IF k = <<0, "array">> THEN <<"f","r","a","m","e","s"," ","m","u","s","t"," ","b","e"," ","a","n"," ","a","r","r","a","y">>
    ELSE IF k = <<0, "entries">> THEN <<"f","r","a","m","e","s"," ","m","u","s","t"," ","h","a","v","e"," ","a","t"," ","l","e","a","s","t"," ","1"," ","e","n","t","r","y">>
    ELSE <<"f","r","a","m","e","s","[">> \o IndexText(k[1] - 1) \o
         (IF k[2] = "object" THEN <<"]"," ","m","u","s","t"," ","b","e"," ","a","n"," ","o","b","j","e","c","t">>
          ELSE IF k[2] = "raw" THEN <<"]",".","r","a","w"," ","m","u","s","t"," ","b","e"," ","a"," ","s","t","r","i","n","g">>
          ELSE IF k[2] = "name" THEN <<"]",".","n","a","m","e"," ","m","u","s","t"," ","b","e"," ","a"," ","s","t","r","i","n","g"," ","o","r"," ","n","u","l","l">>
          ELSE IF k[2] = "file" THEN <<"]",".","f","i","l","e"," ","m","u","s","t"," ","b","e"," ","a"," ","s","t","r","i","n","g">>
          ELSE IF k[2] = "line" THEN <<"]",".","l","i","n","e"," ","m","u","s","t"," ","b","e"," ","a"," ","p","o","s","i","t","i","v","e"," ","i","n","t","e","g","e","r">>
          ELSE <<"]",".","c","o","l"," ","m","u","s","t"," ","b","e"," ","a"," ","p","o","s","i","t","i","v","e"," ","i","n","t","e","g","e","r">>)

\* the wire schema of POST /selection
MatchesSchema(d) ==
    /\ IsPlainObject(d)
    /\ IsStringOrNull(Props(d).domLabel)
    /\ Props(d).frames.t = "array"
    /\ Len(Props(d).frames.v) >= 1
    /\ \A i \in 1..Len(Props(d).frames.v) :
          LET f == Props(d).frames.v[i]
          IN  /\ IsPlainObject(f)
              /\ Props(f).raw.t = "string"
              /\ IsStringOrNull(Props(f).name)
              /\ Props(f).file.t = "string"
              /\ IsPositiveInteger(Props(f).line)
              /\ IsPositiveInteger(Props(f).col)

Validated == ~IsNull(vResult)

\* C15: validateSelection returns the error of the first failing check in
\* the fixed order (document, domLabel, frames array, frames non-empty, then
\* per frame in increasing index: object, raw, name, file, line, col), and
\* null only when every check passes.
C15_FirstFailingCheck ==
    Validated =>
        IF FailedChecks(Val(vDoc)) = {} THEN Val(vResult) = Null
        ELSE Val(vResult) = Some(CheckMessage(FirstFailedCheck(Val(vDoc))))

\* the first frame passes and the second fails several checks
C15_Witness ==
    /\ Validated
    /\ Cardinality(FailedChecks(Val(vDoc))) >= 2
    /\ FirstFailedCheck(Val(vDoc)) = <<2, "line">>
    /\ Val(vResult) = Some(<<"f","r","a","m","e","s","[","1","]",".","l","i","n","e"," ","m","u","s","t"," ","b","e"," ","a"," ","p","o","s","i","t","i","v","e"," ","i","n","t","e","g","e","r">>)

\* C16: validateSelection returns null for exactly the documents matching
\* the wire schema; it rejects every document whose frames is not an array
\* and every document with a frame element lacking raw or file.
C16_AcceptsExactlySchema ==
    Validated =>
        LET d == Val(vDoc)
        IN  /\ Val(vResult) = Null <=> MatchesSchema(d)
            /\ (IsPlainObject(d) /\ Props(d).frames.t # "array") => Val(vResult) # Null
            /\ (/\ IsPlainObject(d)
                /\ Props(d).frames.t = "array"
                /\ \E i \in 1..Len(Props(d).frames.v) :
                      /\ IsPlainObject(Props(d).frames.v[i])
                      /\ \/ Props(Props(d).frames.v[i]).raw.t = "undefined"
                         \/ Props(Props(d).frames.v[i]).file.t = "undefined")
               => Val(vResult) # Null

\* an accepted document with a named and an anonymous frame
C16_Witness ==
    /\ Validated
    /\ Val(vResult) = Null
    /\ Len(Props(Val(vDoc)).frames.v) = 2
    /\ Props(Props(Val(vDoc)).frames.v[1]).name.t = "string"
    /\ Props(Props(Val(vDoc)).frames.v[2]).name.t = "null"
    /\ Props(Val(vDoc)).domLabel.t = "null"

GoodFrameDoc == FrameDoc(JString(<<"r">>), JNull, JString(<<"/","s","r","c","/","a",".","t","s","x">>), JNumber(2), JNumber(2))

\* one frame failing each check
BadFrameDocs ==
    {JNull,
     FrameDoc(JUndefined, JNull, JString(<<"/","s","r","c","/","a",".","t","s","x">>), JNumber(2), JNumber(2)),
     FrameDoc(JString(<<"r">>), JNumber(2), JString(<<"/","s","r","c","/","a",".","t","s","x">>), JNumber(2), JNumber(2)),
     FrameDoc(JString(<<"r">>), JNull, JUndefined, JNumber(2), JNumber(2)),
     FrameDoc(JString(<<"r">>), JNull, JString(<<"/","s","r","c","/","a",".","t","s","x">>), JNumber(0), JNumber(2)),
     FrameDoc(JString(<<"r">>), JNull, JString(<<"/","s","r","c","/","a",".","t","s","x">>), JNumber(2), JNumber(0))}

\* one document for each check, at index 0 and at index 1
FailingDocs ==
    {JNull, Doc(JNumber(2), JArray(<<>>)), Doc(JNull, JNull), Doc(JNull, JArray(<<>>))}
    \cup {Doc(JNull, JArray(<<b>>)) : b \in BadFrameDocs}
    \cup {Doc(JNull, JArray(<<GoodFrameDoc, b>>)) : b \in BadFrameDocs}

\* C17: each failure yields a message naming the offending field and, for a
\* frame, its index, so that the messages of different (check, index) pairs
\* differ; an empty frames array yields "frames must have at least 1 entry"
\* and a single frame with line = 0 yields "frames[0].line must be a
\* positive integer".
C17_DistinctMessages ==
    (Validated /\ FailedChecks(Val(vDoc)) # {}) =>
        LET d == Val(vDoc)
            k == FirstFailedCheck(d)
        IN  /\ Val(vResult) # Null
            /\ \A o \in FailingDocs :
                  FirstFailedCheck(o) # k => validateSelection(o) # Val(vResult)
            /\ k[1] > 0 =>
                  Contains(Val(Val(vResult)), <<"f","r","a","m","e","s","[">> \o IndexText(k[1] - 1) \o <<"]">>)
            /\ (k[1] > 0 /\ k[2] # "object") =>
                  Contains(Val(Val(vResult)), <<"]",".">> \o
                      (IF k[2] = "raw" THEN <<"r","a","w">> ELSE IF k[2] = "name" THEN <<"n","a","m","e">>
                       ELSE IF k[2] = "file" THEN <<"f","i","l","e">>
                       ELSE IF k[2] = "line" THEN <<"l","i","n","e">> ELSE <<"c","o","l">>) \o <<" ","m","u","s","t">>)
            /\ k = <<0, "domLabel">> => Contains(Val(Val(vResult)), <<"d","o","m","L","a","b","e","l">>)
            /\ k \in {<<0, "array">>, <<0, "entries">>} =>
                  Contains(Val(Val(vResult)), <<"f","r","a","m","e","s">>)
            /\ k = <<0, "entries">> =>
                  Val(vResult) = Some(<<"f","r","a","m","e","s"," ","m","u","s","t"," ","h","a","v","e"," ","a","t"," ","l","e","a","s","t"," ","1"," ","e","n","t","r","y">>)
            /\ (/\ IsPlainObject(d) /\ IsStringOrNull(Props(d).domLabel)
                /\ Props(d).frames.t = "array" /\ Len(Props(d).frames.v) = 1
                /\ IsPlainObject(Props(d).frames.v[1])
                /\ Props(Props(d).frames.v[1]).raw.t = "string"
                /\ IsStringOrNull(Props(Props(d).frames.v[1]).name)
                /\ Props(Props(d).frames.v[1]).file.t = "string"
                /\ Props(Props(d).frames.v[1]).line = JNumber(0))
               => Val(vResult) = Some(<<"f","r","a","m","e","s","[","0","]",".","l","i","n","e"," ","m","u","s","t"," ","b","e"," ","a"," ","p","o","s","i","t","i","v","e"," ","i","n","t","e","g","e","r">>)

\* a frame at index 1 fails the col check only
C17_Witness ==
    /\ Validated
    /\ FailedChecks(Val(vDoc)) = {<<2, "col">>}
    /\ Val(vResult) = Some(<<"f","r","a","m","e","s","[","1","]",".","c","o","l"," ","m","u","s","t"," ","b","e"," ","a"," ","p","o","s","i","t","i","v","e"," ","i","n","t","e","g","e","r">>)

----------------------------------------------------------------------------
(* Properties of the bridge server *)

RECURSIVE Sum(_)
Sum(lens) == IF Len(lens) = 0 THEN 0 ELSE Head(lens) + Sum(Tail(lens))

IsSelectionPost(r) == reqs[r].method = "POST" /\ reqs[r].url = "/selection"

\* what the client of request r sent
Sent(r) == Texts[reqs[r].text]

Oversized(r) == Sum(Sent(r).chunks) > 200 * 1024

Acceptable(r) ==
    /\ ~Oversized(r)
    /\ ~IsNull(Sent(r).json)
    /\ MatchesSchema(Val(Sent(r).json))

Finished(r) == reqs[r].phase \in {"closed", "destroyed"}

\* the payload the client of request r serialized
SentSelection(r) ==
    CHOOSE sel \in {SmallSelection, LibSelection, PlainSelection, NoFrames, LineZero} :
        JsonOf(sel) = Val(Sent(r).json)

AcceptedCompleted == SelectSeq(completed, Acceptable)

MostRecent ==
    IF Len(AcceptedCompleted) = 0 THEN Null
    ELSE Some(SentSelection(AcceptedCompleted[Len(AcceptedCompleted)]))

\* the requests whose handlers ran in the step
Handled(r) == r \notin DOMAIN reqs \/ reqs'[r] # reqs[r]

C18_Step ==
    \A r \in DOMAIN reqs' :
        (Handled(r) /\ IsSelectionPost(r)' /\ ~Acceptable(r)') =>
            /\ lastSelection' = lastSelection
            /\ statusBar' = statusBar
            /\ ~reqs'[r].classified
            /\ Finished(r)' =>
                  /\ Len(reqs'[r].responses) = 1
                  /\ reqs'[r].responses[1].status \in {400, 413}
                  /\ reqs'[r].responses[1].status = 413 <=> Oversized(r)'

\* C18: a POST /selection whose body is not valid JSON, fails validation or
\* exceeds the size limit is answered 400 or 413, no step of its handling
\* changes lastSelection, and no classification is run on it.
C18_RejectedLeavesSlot == [][C18_Step]_vars

\* a rejected POST completed after an accepted one, and the accepted payload
\* is still the stored one
C18_Witness ==
    \E a, r \in DOMAIN reqs :
        /\ IsSelectionPost(a) /\ Acceptable(a)
        /\ IsSelectionPost(r) /\ ~Acceptable(r) /\ Finished(r)
        /\ \E i, j \in DOMAIN completed : i < j /\ completed[i] = a /\ completed[j] = r
        /\ reqs[r].responses[1].status = 400
        /\ lastSelection = Some(SentSelection(a))

ValidSelection(sel) ==
    /\ Len(sel.frames) >= 1
    /\ \A k \in DOMAIN sel.frames : sel.frames[k].line >= 1 /\ sel.frames[k].col >= 1

IsHealthCheck(r) ==
    reqs[r].method = "GET" /\ reqs[r].url \in {"/", "/health"}

\* C19: lastSelection is always null or a document that validateSelection
\* accepts (at least one frame, every frame with integer line >= 1 and
\* col >= 1), and what the health check and the commands read had passed
\* validation in full.
C19_SlotValidated ==
    /\ \/ IsNull(lastSelection)
       \/ /\ ValidSelection(Val(lastSelection))
          /\ IsNull(validateSelection(JsonOf(Val(lastSelection))))
          /\ \E r \in Range(completed) :
                /\ Acceptable(r)
                /\ Val(Sent(r).json) = JsonOf(Val(lastSelection))
    /\ \A r \in DOMAIN reqs :
          (IsHealthCheck(r) /\ ~IsNull(Val(reqs[r].responses[1].body).lastSelection)) =>
              Val(Val(reqs[r].responses[1].body).lastSelection).frameCount >= 1
    /\ \A k \in DOMAIN nFrames : nFrames[k].line >= 1 /\ nFrames[k].col >= 1

\* a selection is stored and read by a command, and a document that parses
\* and fails validation was posted as well
C19_Witness ==
    /\ ~IsNull(lastSelection)
    /\ Len(completed) = 2
    /\ \E r \in Range(completed) : ~IsNull(Sent(r).json) /\ ~Acceptable(r)
    /\ cmd = "showLastSelection"
    /\ Len(nFrames) >= 1

HealthSummary(sel) ==
    IF IsNull(sel) THEN Null
    ELSE Some([domLabel |-> Val(sel).domLabel, frameCount |-> Len(Val(sel).frames)])

\* a health check answered in the step reports the most recent accepted payload
C20_HealthReads ==
    \A r \in DOMAIN reqs' \ DOMAIN reqs :
        IsHealthCheck(r)' =>
            /\ reqs'[r].responses[1].status = 200
            /\ Val(reqs'[r].responses[1].body).lastSelection = HealthSummary(MostRecent)

\* a command run in the step works on the most recent accepted payload
C20_CommandReads ==
    (cmdVars' # cmdVars) =>
        IF IsNull(MostRecent)
        THEN /\ message' = [kind |-> "warning", text |-> "no selection received yet"]
             /\ opened' = Null
        ELSE /\ nFrames' = normalizeFrames(Val(MostRecent))
             /\ rendered' = findRenderedBy(normalizeFrames(Val(MostRecent)))

\* C20: after any sequence of POST /selection requests lastSelection is the
\* payload of the most recently completed request that passed validation,
\* null if none did, and the commands and the health check read that value.
C20_MostRecentWins ==
    /\ [](lastSelection = MostRecent)
    /\ [][C20_HealthReads /\ C20_CommandReads]_vars

\* two accepted payloads completed in the reverse of their arrival order, and
\* a command has read the one that completed last
C20_Witness ==
    /\ completed = <<2, 1>>
    /\ Acceptable(1) /\ Acceptable(2)
    /\ SentSelection(1) # SentSelection(2)
    /\ lastSelection = Some(SentSelection(1))
    /\ cmd = "openRenderedBy"
    /\ nFrames = normalizeFrames(SentSelection(1))

\* the step is the 'end' handler accepting the POST /selection r
AcceptsPost(r) ==
    /\ IsSelectionPost(r)
    /\ reqs[r].phase = "receiving"
    /\ reqs'[r].phase = "closed"
    /\ reqs'[r].responses = <<Response(200, Some([ok |-> TRUE]))>>
    /\ lastSelection' = Some(SentSelection(r))

C21_Step ==
    /\ lastSelection' # lastSelection =>
          /\ \E r \in DOMAIN reqs : AcceptsPost(r)
          /\ lifeVars' = lifeVars
          /\ cmdVars' = cmdVars
    /\ ~IsNull(lastSelection) => ~IsNull(lastSelection')

\* C21: lastSelection is null at startup and only the 'end' handler of an
\* accepted POST /selection changes it; the other routes, the commands,
\* startServer, stopServer and deactivate leave it as it is, so that it never
\* becomes null again.
C21_OnlyAcceptedPost == IsNull(lastSelection) /\ [][C21_Step]_vars

\* a selection is still stored after the bridge was stopped, its server
\* closed, and a command ran
C21_Witness ==
    /\ ~IsNull(lastSelection)
    /\ IsNull(server)
    /\ Len(servers) = 1 /\ servers[1].state = "closed"
    /\ notice = Some("React Grab Bridge stopped.")
    /\ cmd = "openUsedIn"

\* the body accumulated for request r exceeds 200 KB
BodyExceeds(r) == Sum([k \in DOMAIN reqs[r].body |-> reqs[r].body[k].len]) > 200 * 1024

C22_State ==
    \A r \in DOMAIN reqs :
        BodyExceeds(r) =>
            /\ reqs[r].responses = <<Response(413, Some([error |-> <<"B","o","d","y"," ","t","o","o"," ","l","a","r","g","e">>]))>>
            /\ ~reqs[r].parsed
            /\ ~reqs[r].validated
            /\ ~reqs[r].classified

C22_Step ==
    \A r \in DOMAIN reqs :
        (reqs'[r] # reqs[r] /\ BodyExceeds(r)') => lastSelection' = lastSelection

\* C22: a POST /selection whose accumulated body exceeds 200*1024 is answered
\* 413 "Body too large", is never parsed or validated, and changes
\* lastSelection in no step.
C22_BodyTooLarge == []C22_State /\ [][C22_Step]_vars

\* a body grew past the limit with its second chunk while a selection
\* accepted earlier, with a body of exactly the limit, stays stored
C22_Witness ==
    \E a, r \in DOMAIN reqs :
        /\ IsSelectionPost(a) /\ IsSelectionPost(r)
        /\ BodyExceeds(r)
        /\ Len(reqs[r].body) = 2
        /\ ~BodyExceeds(a)
        /\ Sum(Sent(a).chunks) = 200 * 1024
        /\ completed = <<a>>
        /\ lastSelection = Some(SentSelection(a))

\* C23: a POST /selection whose Content-Type is not application/json never
\* reaches validateSelection and is never stored in lastSelection.
C23_ContentTypeGate ==
    \A r \in DOMAIN reqs :
        (IsSelectionPost(r) /\ reqs[r].contentType # Some("application/json")) =>
            /\ ~reqs[r].validated
            /\ r \in Range(completed) => lastSelection # Some(SentSelection(r))

NotFound == Response(404, Some([error |-> <<"N","o","t"," ","f","o","u","n","d">>]))

\* what the listener answers to request r on arrival
C24_Arrival ==
    \A r \in DOMAIN reqs' \ DOMAIN reqs :
        /\ lastSelection' = lastSelection
        /\ IF reqs'[r].method = "OPTIONS"
           THEN reqs'[r].responses = <<Response(204, Null)>>
           ELSE IF reqs'[r].method = "GET" /\ reqs'[r].url \in {"/", "/health"}
           THEN reqs'[r].responses =
                    <<Response(200, Some([status |-> "ok", server |-> "react-grab-bridge",
                                          lastSelection |-> HealthSummary(lastSelection)]))>>
           ELSE IF reqs'[r].method = "POST" /\ reqs'[r].url = "/selection"
           THEN reqs'[r].responses = <<>> /\ reqs'[r].phase = "receiving"
           ELSE reqs'[r].responses = <<NotFound>> /\ reqs'[r].phase = "closed"

\* what the 'end' handler answers to a valid document
C24_End ==
    \A r \in DOMAIN reqs :
        (reqs[r].phase = "receiving" /\ reqs'[r].phase = "closed" /\ Acceptable(r)) =>
            /\ reqs'[r].responses = <<Response(200, Some([ok |-> TRUE]))>>
            /\ lastSelection' = Some(SentSelection(r))

\* C24: the server answers by route: OPTIONS 204; GET / or /health 200 with
\* the summary of lastSelection (domLabel and frame count, or null); POST
\* /selection with a valid document 200 {"ok": true} and the document is
\* stored; any other method or path 404, and nothing of it is stored.
C24_Routes == [][C24_Arrival /\ C24_End]_vars

\* a POST was accepted and the health check after it reported the stored
\* selection
C24_Witness ==
    /\ Len(reqs) = 2
    /\ IsSelectionPost(1) /\ completed = <<1>> /\ Acceptable(1)
    /\ reqs[1].responses = <<Response(200, Some([ok |-> TRUE]))>>
    /\ IsHealthCheck(2)
    /\ ~IsNull(Val(reqs[2].responses[1].body).lastSelection)

\* C25: openRenderedBy and openUsedIn open no file when no selection was
\* accepted yet or when findRenderedBy returns null for the last selection;
\* they show a warning and make no openAtLineCol call.
C25_NoTargetNoOpen ==
    cmd \in {"openRenderedBy", "openUsedIn"} =>
        /\ IsNull(lastSelection) =>
              /\ opened = Null
              /\ message = [kind |-> "warning", text |-> "no selection received yet"]
        /\ (~IsNull(lastSelection) /\ IsNull(rendered)) =>
              /\ opened = Null
              /\ message = [kind |-> "warning",
                            text |-> "could not determine rendered-by target"]

\* openUsedIn ran on a selection with frames, none of them a candidate
C25_Witness ==
    /\ cmd = "openUsedIn"
    /\ ~IsNull(lastSelection)
    /\ Len(Val(lastSelection).frames) > 0
    /\ CandidatePositions(nFrames) = {}
    /\ opened = Null
    /\ message.kind = "warning"

----------------------------------------------------------------------------
(* Properties of the parsers *)

ShapeNames == {Null, Some(<<"F","o","o">>), Some(<<"A"," ","b">>)}

ShapeFiles == PoolFiles \cup {<<"/","a",".","t","s">>, <<"/","a",".","j","s","x">>, <<"/","a",".","j","s","o","n">>, <<"/","a",".","t","s","x",".","m","a","p">>}

\* the digit strings of the pool and the numbers they denote
ShapeNumbers ==
    {<<<<"1","2">>, 12>>, <<<<"5">>, 5>>, <<<<"1">>, 1>>, <<<<"0">>, 0>>, <<<<"0","7">>, 7>>}

\* "<name> (at <file>:<line>:<col>)" and "<file>:<line>:<col>"
ShapeRaw(name, f, line, col) ==
    IF IsNull(name) THEN f \o <<":">> \o line \o <<":">> \o col
    ELSE Val(name) \o <<" ","(","a","t"," ">> \o f \o <<":">> \o line \o <<":">> \o col \o <<")">>

\* every stack line of the two shapes, with the frame it denotes
Shapes ==
    {[raw |-> ShapeRaw(name, f, line[1], col[1]),
      frame |-> Frame(ShapeRaw(name, f, line[1], col[1]), name, f, line[2], col[2])] :
        name \in ShapeNames, f \in ShapeFiles, line \in ShapeNumbers, col \in ShapeNumbers}

\* the file path ends in a source extension
HasSourceExtension(f) ==
    \E ext \in {<<".","t","s">>, <<".","t","s","x">>, <<".","j","s">>, <<".","j","s","x">>} :
        Len(f) >= Len(ext) /\ SubSeq(f, Len(f) - Len(ext) + 1, Len(f)) = ext

ParsedText == ~IsNull(pPayload)

ParsedRaw == ~IsNull(pFrame)

\* the frames parseReactGrabText returned, none when it returned null
Frames == IF IsNull(Val(pPayload)) THEN <<>> ELSE Val(Val(pPayload)).frames

\* C26: a line of the named shape parses to its name, file, line and col, a
\* line of the plain shape to name = null with its file, line and col, the
\* file being everything up to the final :<line>:<col>; parseFrame returns
\* that frame, and parseReactGrabText returns it for an "in" line of a source
\* file with positive line and col.
C26_Shapes ==
    \A e \in Shapes :
        /\ (ParsedRaw /\ pRaw = Some(e.raw)) => Val(pFrame) = Some(e.frame)
        /\ ParsedText =>
              \A k \in DOMAIN pText :
                  (/\ pText[k] = <<" "," ","i","n"," ">> \o e.raw
                   /\ HasSourceExtension(e.frame.file)
                   /\ e.frame.line >= 1 /\ e.frame.col >= 1) =>
                      \E j \in DOMAIN Frames :
                          Frames[j] = [e.frame EXCEPT !.raw = <<"i","n"," ">> \o e.raw]

\* parseFrame ran on a named line whose file holds a :<digits> of its own
C26_Witness ==
    /\ ParsedRaw
    /\ pRaw = Some(<<"F","o","o"," ","(","a","t"," ","/","a",".","t","s",":","3","/","c",".","c","s","s",":","1","2",":","5",")">>)
    /\ Val(Val(pFrame)).file = <<"/","a",".","t","s",":","3","/","c",".","c","s","s">>
    /\ Val(Val(pFrame)).name = Some(<<"F","o","o">>)

\* parseReactGrabText ran on a plain and a named line
C26_WitnessText ==
    /\ ParsedText
    /\ pText = <<<<" "," ","i","n"," ","/","a",".","t","s","x",":","1","2",":","5">>, <<" "," ","i","n"," ","A"," ","b"," ","(","a","t"," ","/","a",".","t","s","x",":","1","2",":","5",")">>>>
    /\ Len(Frames) = 2
    /\ Frames[1].name = Null
    /\ Frames[2].name = Some(<<"A"," ","b">>)

\* the line has the leading "in" marker and matches one of the two shapes
IsStackLine(l) == AfterMarker(l) # {} /\ ~IsNull(LineMatch(l))

\* the places of the frames among the lines: one line for each frame, in
\* increasing order, each the line the frame was read from
Places ==
    {f \in [DOMAIN Frames -> DOMAIN pText] :
        /\ \A i, j \in DOMAIN Frames : i < j => f[i] < f[j]
        /\ \A j \in DOMAIN Frames :
              /\ Frames[j].raw = trim(pText[f[j]])
              /\ IsStackLine(trimEnd(pText[f[j]]))}

\* C27: parseReactGrabText returns on every text; a line without the "in"
\* marker or matching neither shape gives no frame, every returned frame has
\* integer line >= 1 and col >= 1, the frames follow the order of their
\* lines, and the result is null exactly when no line gave a frame.
C27_SkipsAndKeeps ==
    ParsedText =>
        /\ \A k \in DOMAIN pText :
              ~IsStackLine(trimEnd(pText[k])) =>
                  \A j \in DOMAIN Frames : Frames[j].raw # trim(pText[k])
        /\ \A j \in DOMAIN Frames :
              /\ Frames[j].line \in Nat /\ Frames[j].line >= 1
              /\ Frames[j].col \in Nat /\ Frames[j].col >= 1
        /\ Places # {}
        /\ IsNull(Val(pPayload)) <=>
              \A k \in DOMAIN pText : KeptFrames(trimEnd(pText[k])) = <<>>
        /\ ~IsNull(Val(pPayload)) => Len(Frames) >= 1

\* an unmatched "in" line and a line with column 0 were skipped, the frame
\* of the line between them returned
C27_Witness ==
    /\ ParsedText
    /\ pText = <<<<" "," ","i","n"," ","F","o","o"," ","(","a","t"," ","/","a",".","t","s","x",":","1","2",")">>, <<" "," ","i","n"," ","/","b",".","j","s",":","1","2",":","5">>>>
    /\ Len(Frames) = 1
    /\ Frames[1].file = <<"/","b",".","j","s">>

\* a text of "in" lines with line or column 0 only gives null
C27_WitnessNull ==
    /\ ParsedText
    /\ pText = <<<<" "," ","i","n"," ","/","a",".","t","s","x",":","0",":","5">>, <<" "," ","i","n"," ","F","o","o"," ","(","a","t"," ","/","a",".","t","s","x",":","1","2",":","0",")">>>>
    /\ IsNull(Val(pPayload))

\* C28: every frame parseReactGrabText keeps has a file that ends in .ts,
\* .tsx, .js or .jsx.
C28_SourceExtension ==
    ParsedText => \A j \in DOMAIN Frames : HasSourceExtension(Frames[j].file)

----------------------------------------------------------------------------
(* Properties of the browser bridge *)

\* C29: once the cleanup function has been called, send is not called and
\* no POST is issued any more.
C29_QuietAfterCleanup ==
    [][cleanedUp => (sends' = sends /\ posts' = posts)]_vars

LocalHostnames == {<<"1","2","7",".","0",".","0",".","1">>, <<"l","o","c","a","l","h","o","s","t">>, <<"[",":",":","1","]">>}

\* endpointUrl does not parse to a URL with a local hostname and the
\* override is not given
NonLocalEndpoint ==
    /\ ~allowNonLocalhost
    /\ \/ IsNull(Hostname(endpointUrl))
       \/ Val(Hostname(endpointUrl)) \notin LocalHostnames

\* C30: with an endpoint that is not local and without allowNonLocalhost,
\* startReactGrabBridge registers no plugin and no callback, installs no
\* copy listener, and nothing is ever sent or POSTed.
C30_NonLocalRefused ==
    NonLocalEndpoint =>
        /\ ~plugin
        /\ ~onSelectionCb
        /\ ~copyListener
        /\ handlers = <<>>
        /\ sends = <<>>
        /\ posts = <<>>

\* the bridge was started with an endpoint that only begins like a local
\* one, and a stack was copied afterwards
C30_Witness ==
    /\ bridge = "refused"
    /\ endpointUrl = <<"h","t","t","p",":","/","/","l","o","c","a","l","h","o","s","t",".","e","x","a","m","p","l","e",".","c","o","m","/","s","e","l","e","c","t","i","o","n">>
    /\ ~IsNull(reactGrab)
    /\ clipboard = StackText

\* the payload of the latest call of send
LastSent == sends[Len(sends)]

\* a POST is issued only with a call pending, it carries the payload of the
\* latest send and leaves no call pending; a call becomes pending by a send
\* only, and a send issues no POST
C31_Step ==
    /\ posts' # posts =>
          /\ ~IsNull(timer)
          /\ posts' = Append(posts, [url |-> endpointUrl, payload |-> LastSent])
          /\ sends' = sends
          /\ IsNull(timer')
    /\ sends' # sends =>
          /\ Len(sends') = Len(sends) + 1
          /\ timer' = Some(LastSent')
          /\ posts' = posts
    /\ timer' # timer => (posts' # posts \/ sends' # sends)

\* C31: the POST of a burst of sends is issued once the timer set by its
\* last send fires, with the payload of that send; every burst gets its
\* POST, and one only.
C31_OnePostPerBurst ==
    /\ [](~IsNull(timer) => sends # <<>> /\ Val(timer) = LastSent)
    /\ [](Len(posts) + Len(timer) <= Len(sends))
    /\ [][C31_Step]_vars
    /\ \A n \in 1..MaxEvents :
          (Len(sends) = n /\ ~IsNull(timer)) ~>
              (Len(sends) > n \/ (IsNull(timer) /\ posts # <<>>
                                  /\ posts[Len(posts)].payload = LastSent))

\* two sends in one burst, then the one POST with the payload of the second
C31_Witness ==
    /\ Len(sends) = 2
    /\ sends[1] # sends[2]
    /\ Len(posts) = 1
    /\ posts[1].payload = sends[2]
    /\ IsNull(timer)

\* one selection was delivered twice, by a React Grab callback and by a
\* copy event, and nothing else happened
DeliveredBothWays ==
    /\ Len(events) = 2
    /\ \E i, j \in 1..2 :
          /\ events[i].via # "copy"
          /\ events[j].via = "copy"
          /\ events[i].text = events[j].text

\* C32: a selection delivered by the plugin callback and by the copy
\* handler is posted once.
C32_PostedOnce == DeliveredBothWays => Len(posts) <= 1

\* C38: every payload passed to send is accepted by validateSelection.
C38_SentIsValid ==
    \A k \in DOMAIN sends : IsNull(validateSelection(sends[k]))

\* C37: once the cleanup of an effect has run, the bridge that effect
\* started is not active.
C37_NoBridgeAfterCleanup ==
    \A i \in DOMAIN effects : effects[i].unmounted => ~effects[i].listening

----------------------------------------------------------------------------
(* Properties of the server handle *)

\* C33: whenever serverRunning is true the module holds a server, and a
\* server that listens is the one the module holds.
C33_HandleHeld ==
    /\ serverRunning => ~IsNull(server)
    /\ \A id \in DOMAIN servers :
          servers[id].state = "listening" => server = Some(id)

\* the callback stopServer passed to close is still to run for server id
StopPending(id) == id \in DOMAIN servers /\ servers[id].stopping

\* the close callback resets the handle, the flag and the status bar; no
\* server is created while a callback is pending; a server is created only
\* when none is held, and is then the one held
C34_Step ==
    /\ \A id \in DOMAIN servers :
          (StopPending(id) /\ ~servers'[id].stopping) =>
              /\ servers'[id].state = "closed"
              /\ server' = Null
              /\ serverRunning' = FALSE
              /\ statusBarItem' = Some("React Grab: Off")
    /\ (\E id \in DOMAIN servers : StopPending(id)) =>
          /\ Len(servers') = Len(servers)
          /\ (notice' # notice /\ notice' = Some("React Grab Bridge already running.")) =>
                UNCHANGED <<server, serverRunning, servers, statusBarItem, lastSelection>>
    /\ Len(servers') > Len(servers) =>
          /\ IsNull(server)
          /\ server' = Some(Len(servers'))
          /\ servers'[Len(servers')].state = "starting"

C34_WitnessRefused ==
    /\ \E id \in DOMAIN servers : StopPending(id) /\ server = Some(id)
    /\ notice = Some("React Grab Bridge already running.")

----------------------------------------------------------------------------
(* Properties of the events of a request *)

TooLargeResponse == Response(413, Some([error |-> <<"B","o","d","y"," ","t","o","o"," ","l","a","r","g","e">>]))

C35_State ==
    \A r \in DOMAIN reqs :
        /\ Len(reqs[r].responses) <= 1
        /\ reqs[r].tooLarge => reqs[r].responses = <<TooLargeResponse>>

C35_Step ==
    \A r \in DOMAIN reqs :
        /\ reqs[r].responses # <<>> => reqs'[r].responses = reqs[r].responses
        /\ (reqs[r].tooLarge /\ reqs'[r] # reqs[r]) => lastSelection' = lastSelection

\* C35: the head of a response is written at most once for every request,
\* and once the 413 was sent no 'data' or 'end' event of the request writes
\* a response or stores the payload.
C35_AnsweredOnce == []C35_State /\ [][C35_Step]_vars

\* a 'data' event and the 'end' event of a request ran after its 413, while
\* another payload is stored
C35_Witness ==
    \E r \in DOMAIN reqs :
        /\ reqs[r].tooLarge
        /\ BodyLength(reqs[r].body) > MAX_BODY + 1
        /\ reqs[r].phase = "closed"
        /\ r \in Range(completed)
        /\ reqs[r].responses = <<TooLargeResponse>>
        /\ ~IsNull(lastSelection)
        /\ lastSelection # Some(SentSelection(r))

\* the body of request r is the chunks of r delivered so far, in order
OwnChunks(r) ==
    reqs[r].body = [k \in 1..reqs[r].delivered |-> Chunk(reqs[r].text, k)]

\* the step is the 'end' handler of r
Ends(r) == completed' = Append(completed, r)

C36_Step ==
    /\ \A r \in DOMAIN reqs :
          (Ends(r) /\ Acceptable(r)) =>
              /\ reqs[r].body = [k \in DOMAIN Sent(r).chunks |-> Chunk(reqs[r].text, k)]
              /\ lastSelection' = Some(SentSelection(r))
    /\ lastSelection' # lastSelection =>
          \E r \in DOMAIN reqs : Ends(r) /\ Acceptable(r)

\* C36: with the events of several POST /selection requests interleaved,
\* the body of each request is its own chunks in arrival order, and
\* lastSelection is the whole payload of the accepted request whose 'end'
\* handler ran last.
C36_BodiesApart ==
    /\ [](\A r \in DOMAIN reqs : IsSelectionPost(r) => OwnChunks(r))
    /\ [][C36_Step]_vars
    /\ [](AcceptedCompleted # <<>> =>
            lastSelection = Some(SentSelection(AcceptedCompleted[Len(AcceptedCompleted)])))

\* the events of a second request ran between the arrival of the first and
\* its 'end' event, and the payload of the first, sent in two chunks, is stored
C36_Witness ==
    /\ Len(reqs) = 2
    /\ IsSelectionPost(1) /\ IsSelectionPost(2)
    /\ Len(reqs[1].body) = 2
    /\ reqs[2].body # <<>>
    /\ Sent(1) # Sent(2)
    /\ Acceptable(1) /\ Acceptable(2)
    /\ completed = <<2, 1>>
    /\ lastSelection = Some(SentSelection(1))
    /\ cmd = "none"

----------------------------------------------------------------------------
(* Properties of normalizeFrames *)

\* the frame without its normalizedFile
Plain(nf) == [raw |-> nf.raw, name |-> nf.name, file |-> nf.file, line |-> nf.line, col |-> nf.col]

\* the frames a command normalized are those of the stored selection, each
\* with its normalized file added
C39_State ==
    (cmd # "none" /\ ~IsNull(lastSelection)) =>
        /\ Len(nFrames) = Len(Val(lastSelection).frames)
        /\ \A k \in DOMAIN nFrames :
              /\ Plain(nFrames[k]) = Val(lastSelection).frames[k]
              /\ nFrames[k].normalizedFile = normalizePath(Val(lastSelection).frames[k].file)

\* a command leaves the stored selection alone, and one that runs after
\* another finds the same frames, rendered-by frame and used-in frame
C39_Step ==
    (cmd' # "none" /\ cmdVars' # cmdVars) =>
        /\ lastSelection' = lastSelection
        /\ cmd # "none" =>
              /\ nFrames' = nFrames
              /\ rendered' = rendered
              /\ (~IsNull(usedIn) /\ ~IsNull(usedIn')) => usedIn' = usedIn

\* C39: normalizeFrames returns the frames of the selection in their order,
\* each with raw, name, file, line and col unchanged and normalizedFile =
\* normalizePath(file) added; the stored selection is not modified, and
\* classifying it again yields the same rendered-by and used-in frames.
C39_FramesKept == []C39_State /\ [][C39_Step]_vars

\* a selection of several frames was classified: a normalized file differs
\* from the file it was made from, and the rendered-by and used-in frames
\* differ
C39_Witness ==
    /\ cmd = "showLastSelection"
    /\ ~IsNull(lastSelection)
    /\ Len(nFrames) >= 2
    /\ \E k \in DOMAIN nFrames : nFrames[k].normalizedFile # nFrames[k].file
    /\ ~IsNull(rendered) /\ ~IsNull(usedIn)
    /\ Val(usedIn) # Val(rendered).frame

====
